---- MODULE Spec2Model ----
(***************************************************************************)
(* Model of the CAPA response-grading engine of edx-platform               *)
(* (common/lib/capa/capa/responsetypes.py).                                *)
(*                                                                         *)
(* Several specifications share the module, among them:                    *)
(*   Spec            LoncapaResponse.evaluate_answers / get_hints          *)
(*   SpecCode        CodeResponse.get_score / update_score                 *)
(*   SpecMC          MultipleChoiceResponse shuffle and answer-pool        *)
(*   SpecChoice      ChoiceResponse                                        *)
(*   SpecNumerical   NumericalResponse                                     *)
(*   SpecString      StringResponse                                        *)
(*   SpecChoiceText  ChoiceTextResponse                                    *)
(*                                                                         *)
(* Python's None is modelled by the empty sequence, an optional value x by *)
(* the one-element sequence <<x>>.  A dict is a function whose domain is   *)
(* the set of its keys.                                                    *)
(***************************************************************************)
EXTENDS Integers, Sequences, FiniteSets, TLC

VARIABLES
    \* ---- evaluate_answers / get_hints ----
    resp,             \* the response instance: answer_ids, hint_tag, hintgroup, schema
    pc,               \* position inside the running evaluate_answers call
    student_answers,  \* argument of the running call
    new_cmap,         \* local new_cmap of evaluate_answers
    trace,            \* calls made so far by the running evaluate_answers call
    branches,         \* what get_hints did in the running call (None before it ran)
    result,           \* value returned by the running call (None until it returns)
    \* ---- CodeResponse ----
    code,             \* the CodeResponse / CustomResponse instance and its system
    clock,            \* datetime.now(UTC), in seconds
    cmap,             \* the correct map the problem keeps for the response
    last,             \* the last operation on the response and what it saw
    \* ---- MultipleChoiceResponse ----
    problem,          \* the problem XML (choicegroups) and the seed of the context
    inst,             \* problem instances built from it: shared rng and responses
    calls,            \* per instance, the responses whose late_transforms ran
    mclast            \* the last late_transforms call and what it did

evalVars == <<resp, pc, student_answers, new_cmap, trace, branches, result>>
codeVars == <<code, clock, cmap, last>>
mcVars   == <<problem, inst, calls, mclast>>
vars     == <<resp, pc, student_answers, new_cmap, trace, branches, result,
              code, clock, cmap, last, problem, inst, calls, mclast>>

None == <<>>
Some(x) == <<x>>
IsNone(o) == o = <<>>

EmptyDict == <<>>

RECURSIVE SeqToSet(_)
SeqToSet(s) == IF s = <<>> THEN {} ELSE {Head(s)} \cup SeqToSet(Tail(s))

Min(a, b) == IF a < b THEN a ELSE b
Max(a, b) == IF a > b THEN a ELSE b

(***************************************************************************)
(* CorrectMap (capa/correctmap.py)                                         *)
(***************************************************************************)

\* One record of the map, with the defaults of CorrectMap.set.
CorrectMapEntry(correctness, npoints, msg, hint, hintmode, queuestate) ==
    [correctness |-> correctness, npoints |-> npoints, msg |-> msg,
     hint |-> hint, hintmode |-> hintmode, queuestate |-> queuestate]

\* cmap.set(answer_id, correctness=None, npoints=None, msg='', hint='',
\*          hintmode=None, queuestate=None): the record of answer_id is
\* written from the arguments, every argument not given taking its default.
CorrectMapSet(m, aid, correctness, npoints, msg, queuestate) ==
    [k \in (DOMAIN m) \cup {aid} |->
        IF k = aid
        THEN CorrectMapEntry(correctness, npoints, msg, "", None, queuestate)
        ELSE m[k]]

\* cmap.set_hint_and_mode(answer_id, hint, hintmode)
CorrectMapSetHintAndMode(m, aid, hint, hintmode) ==
    IF aid \in DOMAIN m
    THEN [m EXCEPT ![aid].hint = hint, ![aid].hintmode = hintmode]
    ELSE m

\* cmap.is_queued(answer_id)
CorrectMapIsQueued(m, aid) ==
    aid \in DOMAIN m /\ ~IsNone(m[aid].queuestate)

\* cmap.is_right_queuekey(answer_id, test_key)
CorrectMapIsRightQueuekey(m, aid, test_key) ==
    CorrectMapIsQueued(m, aid) /\ m[aid].queuestate[1].key = test_key

(***************************************************************************)
(* LoncapaResponse.evaluate_answers and the hint selection protocol        *)
(***************************************************************************)

MaxAnswerIds == 2

AllAnswerIds == 1..MaxAnswerIds

\* the hintgroup element of the response XML (None when there is none)
HintGroups ==
    { None,
      \* <hintgroup hintfn="fn"/> : no child elements
      Some([hintfn |-> Some("fn"), mode |-> None, rephints |-> <<>>, hintparts |-> <<>>]),
      \* hint function together with child elements
      Some([hintfn |-> Some("fn"), mode |-> None, rephints |-> <<"h1">>,
            hintparts |-> <<[on |-> "h1", text |-> "t1"]>>]),
      \* empty hintfn attribute
      Some([hintfn |-> Some(""), mode |-> None, rephints |-> <<"h1">>,
            hintparts |-> <<[on |-> "h1", text |-> "t1"]>>]),
      \* legacy condition hints, default mode, two hintparts
      Some([hintfn |-> None, mode |-> None, rephints |-> <<"h1", "h2">>,
            hintparts |-> <<[on |-> "h1", text |-> "t1"], [on |-> "h2", text |-> "t2"]>>]),
      \* legacy condition hints shown on request
      Some([hintfn |-> None, mode |-> Some("on_request"), rephints |-> <<"h1">>,
            hintparts |-> <<[on |-> "h1", text |-> "t1"]>>]),
      \* a hintgroup with hintparts but no condition element
      Some([hintfn |-> None, mode |-> None, rephints |-> <<>>,
            hintparts |-> <<[on |-> "h1", text |-> "t1"]>>]) }

\* truth value of an lxml element: it has at least one child
ElementTruth(e) ==
    /\ ~IsNone(e)
    /\ Len(e[1].rephints) + Len(e[1].hintparts) > 0

ResponseConfigs ==
    [ answer_ids : { [i \in 1..n |-> i] : n \in 1..MaxAnswerIds },
      hint_tag : {None, Some("hinttag")},        \* class attribute hint_tag
      has_check : BOOLEAN,                       \* the type overrides check_hint_condition
      has_xml_hooks : BOOLEAN,                   \* the type overrides the new-style hint hooks
      schema : {None, Some("edXML/1.0")},        \* schema attribute of the problem element
      hintgroup : HintGroups ]

\* LoncapaResponse._using_new_style_hints
UsingNewStyleHints(r) == r.schema = Some("edXML/1.0")

\* values a student can submit for one answer field
AnswerValues == {"text", "file"}

\* util.convert_files_to_filenames: file objects are replaced by their names
ConvertFilesToFilenames(sa) ==
    [k \in DOMAIN sa |-> IF sa[k] = "file" THEN "filename" ELSE sa[k]]

\* get_compound_condition_hints / get_single_choice_hints write the hint
\* markup into the msg of an answer field
XmlHintMsg(m, aid, text) ==
    IF aid \in DOMAIN m THEN [m EXCEPT ![aid].msg = text] ELSE m

\* get_xml_hints that forgets to report the new-style hints it applied
GetXmlHints_NotReported(r, sa, m, matched) ==
    IF Cardinality(DOMAIN sa) > 0 /\ UsingNewStyleHints(r)
    THEN LET compound == r.has_xml_hooks /\ matched
             aid == r.answer_ids[1]
         IN  [found |-> FALSE,
              hooks |-> IF compound THEN <<"compound">> ELSE <<"compound", "single">>,
              cmap  |-> IF ~r.has_xml_hooks THEN m
                        ELSE IF compound THEN XmlHintMsg(m, aid, "compound_hint")
                        ELSE XmlHintMsg(m, aid, "single_hint")]
    ELSE [found |-> FALSE, hooks |-> <<>>, cmap |-> m]

\* LoncapaResponse.get_xml_hints.  matched: the outcome of the type's
\* get_compound_condition_hints (always False for the base class).
\* Returns the flag new_style_hints_found, the map and the hooks called.
GetXmlHints(r, sa, m, matched) ==
    IF Cardinality(DOMAIN sa) > 0 /\ UsingNewStyleHints(r)
    THEN LET compound == r.has_xml_hooks /\ matched
             aid == r.answer_ids[1]
         IN  [found |-> TRUE,
              hooks |-> IF compound THEN <<"compound">> ELSE <<"compound", "single">>,
              cmap  |-> IF ~r.has_xml_hooks THEN m
                        ELSE IF compound THEN XmlHintMsg(m, aid, "compound_hint")
                        ELSE XmlHintMsg(m, aid, "single_hint")]
    ELSE [found |-> FALSE, hooks |-> <<>>, cmap |-> m]

RECURSIVE ApplyHintParts(_, _, _, _, _)
\* the loop over hintgroup.findall('hintpart') of get_hints
ApplyHintParts(m, parts, hints_to_show, aid, hintmode) ==
    IF parts = <<>> THEN m
    ELSE LET hp == Head(parts)
             m2 == IF hp.on \in hints_to_show
                   THEN CorrectMapSetHintAndMode(m, aid, hp.text, hintmode)
                   ELSE m
         IN  ApplyHintParts(m2, Tail(parts), hints_to_show, aid, hintmode)

\* The legacy (condition based) arm of get_hints.  shown: the names the
\* type's check_hint_condition reports; the base class method returns None.
LegacyHints(r, m, shown) ==
    LET hg == r.hintgroup IN
    IF /\ ~IsNone(r.hint_tag)
       /\ ElementTruth(hg)
       /\ Len(hg[1].rephints) > 0
    THEN LET h == hg[1]
             hintmode == IF IsNone(h.mode) THEN "always" ELSE h.mode[1]
             aid == r.answer_ids[Len(r.answer_ids)]
         IN  IF ~r.has_check /\ Len(h.hintparts) > 0
             THEN [raised |-> "TypeError", checked |-> TRUE, hints_to_show |-> {},
                   cmap |-> m]
             ELSE [raised |-> "",
                   checked |-> TRUE,
                   hints_to_show |-> IF r.has_check THEN shown ELSE {},
                   cmap |-> ApplyHintParts(m, h.hintparts,
                                IF r.has_check THEN shown ELSE {}, aid, hintmode)]
    ELSE [raised |-> "", checked |-> FALSE, hints_to_show |-> {}, cmap |-> m]

\* get_hints that goes on to the legacy conditions after new-style hints
\* were found
GetHints_LegacyAlso(r, sa, m, fn, matched, shown) ==
    LET hg == r.hintgroup
        hint_function_provided ==
            /\ ElementTruth(hg)
            /\ ~IsNone(hg[1].hintfn)
            /\ hg[1].hintfn[1] # ""
    IN
    IF hint_function_provided
    THEN IF fn = -1
         THEN [arms |-> <<"hintfn">>, hooks |-> <<>>, checked |-> FALSE,
               hints_to_show |-> {}, raised |-> "ResponseError", cmap |-> m]
         ELSE [arms |-> <<"hintfn">>, hooks |-> <<>>, checked |-> FALSE,
               hints_to_show |-> {}, raised |-> "",
               cmap |-> CorrectMapSetHintAndMode(m, fn, "fn_hint", "always")]
    ELSE LET x == GetXmlHints(r, sa, m, matched)
             l == LegacyHints(r, x.cmap, shown)
         IN  [arms |-> IF x.found THEN <<"xml">> ELSE <<"legacy">>,
              hooks |-> x.hooks, checked |-> l.checked,
              hints_to_show |-> l.hints_to_show, raised |-> l.raised, cmap |-> l.cmap]

\* LoncapaResponse.get_hints.  fn: outcome of the sandboxed hint function
\* (-1: it raises, 0: it sets no hint, otherwise the answer id whose hint it
\* sets).  Returns the arms entered, the new-style hooks called, whether the
\* legacy conditions were checked, the exception raised ("" for none) and
\* the map.
GetHints(r, sa, m, fn, matched, shown) ==
    LET hg == r.hintgroup
        hint_function_provided ==
            /\ ElementTruth(hg)
            /\ ~IsNone(hg[1].hintfn)
            /\ hg[1].hintfn[1] # ""
    IN
    IF hint_function_provided
    THEN IF fn = -1
         THEN [arms |-> <<"hintfn">>, hooks |-> <<>>, checked |-> FALSE,
               hints_to_show |-> {}, raised |-> "ResponseError", cmap |-> m]
         ELSE [arms |-> <<"hintfn">>, hooks |-> <<>>, checked |-> FALSE,
               hints_to_show |-> {}, raised |-> "",
               cmap |-> CorrectMapSetHintAndMode(m, fn, "fn_hint", "always")]
    ELSE LET x == GetXmlHints(r, sa, m, matched) IN
         IF ~x.found
         THEN LET l == LegacyHints(r, x.cmap, shown) IN
              [arms |-> <<"legacy">>, hooks |-> x.hooks, checked |-> l.checked,
               hints_to_show |-> l.hints_to_show, raised |-> l.raised, cmap |-> l.cmap]
         ELSE [arms |-> <<"xml">>, hooks |-> x.hooks, checked |-> FALSE,
               hints_to_show |-> {}, raised |-> "", cmap |-> x.cmap]

EvalInit ==
    /\ resp \in ResponseConfigs
    /\ pc = "idle"
    /\ student_answers = EmptyDict
    /\ new_cmap = None
    /\ trace = <<>>
    /\ branches = None
    /\ result = None

EvalIdle ==
    /\ code = None
    /\ clock = 0
    /\ cmap = EmptyDict
    /\ last = None
    /\ problem = None
    /\ inst = None
    /\ calls = None
    /\ mclast = None

\* evaluate_answers(student_answers, old_cmap) is called.  old_cmap is only
\* handed on to the sandboxed hint function, whose effect is an input of
\* GetHints, so it is not kept in the state.
EvaluateAnswers ==
    /\ pc \in {"idle", "returned", "raised"}
    /\ \E ids \in SUBSET SeqToSet(resp.answer_ids) :
       \E sa \in [ids -> AnswerValues] :
          student_answers' = sa
    /\ new_cmap' = None
    /\ trace' = <<>>
    /\ branches' = None
    /\ pc' = "get_score"
    /\ result' = None
    /\ UNCHANGED resp

\* new_cmap = self.get_score(student_answers), the abstract scoring step
\* returns a map with one entry per answer field
GetScoreReturn ==
    /\ pc = "get_score"
    /\ \E c \in [SeqToSet(resp.answer_ids) -> {"correct", "incorrect"}] :
          new_cmap' = Some([k \in DOMAIN c |->
                              CorrectMapEntry(c[k], None, "", "", None, None)])
    /\ trace' = Append(trace, "get_score")
    /\ pc' = "get_hints"
    /\ UNCHANGED <<resp, student_answers, branches, result>>

\* evaluate_answers that swallows the exception of get_score and goes on
\* to the hints with an empty map
GetScoreRaise_Swallowed ==
    /\ pc = "get_score"
    /\ trace' = Append(trace, "get_score_raise")
    /\ new_cmap' = Some(EmptyDict)
    /\ pc' = "get_hints"
    /\ UNCHANGED <<resp, student_answers, branches, result>>

\* get_score raises (StudentInputError, ResponseError, ...): the exception
\* leaves evaluate_answers
GetScoreRaise ==
    /\ pc = "get_score"
    /\ trace' = Append(trace, "get_score_raise")
    /\ pc' = "raised"
    /\ UNCHANGED <<resp, student_answers, new_cmap, branches, result>>

\* self.get_hints(convert_files_to_filenames(student_answers), new_cmap, old_cmap)
GetHintsStep ==
    /\ pc = "get_hints"
    /\ \E fn \in {-1, 0} \cup SeqToSet(resp.answer_ids) :
       \E matched \in BOOLEAN :
       \E shown \in SUBSET {"h1", "h2"} :
          LET h == GetHints(resp, ConvertFilesToFilenames(student_answers),
                            new_cmap[1], fn, matched, shown)
          IN  /\ new_cmap' = Some(h.cmap)
              /\ branches' = Some([arms |-> h.arms, hooks |-> h.hooks,
                                    checked |-> h.checked,
                                    hints_to_show |-> h.hints_to_show])
              /\ trace' = Append(trace, "get_hints")
              /\ pc' = IF h.raised # "" THEN "raised" ELSE "return"
    /\ UNCHANGED <<resp, student_answers, result>>

\* return new_cmap
EvaluateReturn ==
    /\ pc = "return"
    /\ result' = new_cmap
    /\ pc' = "returned"
    /\ UNCHANGED <<resp, student_answers, new_cmap, trace, branches>>

Init == EvalInit /\ EvalIdle

Next ==
    \/ EvaluateAnswers /\ UNCHANGED <<codeVars, mcVars>>
    \/ GetScoreReturn /\ UNCHANGED <<codeVars, mcVars>>
    \/ GetScoreRaise /\ UNCHANGED <<codeVars, mcVars>>
    \/ GetHintsStep /\ UNCHANGED <<codeVars, mcVars>>
    \/ EvaluateReturn /\ UNCHANGED <<codeVars, mcVars>>

Spec == Init /\ [][Next]_vars

(***************************************************************************)
(* CodeResponse (external grader) and CustomResponse scoring               *)
(***************************************************************************)

MaxPointsAttr == 2      \* largest points attribute of an answer field
MaxGraderScore == 2     \* largest score an external grader reports
MaxTime == 2            \* seconds the clock can advance

\* LoncapaResponse.__init__ : answer_ids and maxpoints of the instance;
\* capa_system.xqueue is None when no grader is set up.  A coderesponse has
\* max_inputfields = 1.
CodeConfigs ==
    { [kind |-> "code", xqueue |-> xq, answer_ids |-> <<1>>, maxpoints |-> mp] :
         xq \in BOOLEAN, mp \in [{1} -> 1..MaxPointsAttr] }
    \cup
    UNION { { [kind |-> "custom", xqueue |-> FALSE,
               answer_ids |-> [i \in 1..n |-> i], maxpoints |-> mp] :
                 mp \in [1..n -> {1, MaxPointsAttr}] } : n \in 1..MaxAnswerIds }

\* xqueue_interface.make_hashkey(str(seed) + qtime + anonymous_student_id +
\* answer_id): seed, student and answer field are fixed for the instance, so
\* the key is determined by the submission time
MakeHashkey(qtime, aid) == <<"key", qtime, aid>>

\* keys a grader reply can carry
QueueKeys == { MakeHashkey(t, 1) : t \in 0..MaxTime }

\* grader replies: json is "invalid" (not JSON), "list" (JSON, not a dict)
\* or "dict"; keys are the keys of the dict; msg is "xml" (parses as XML),
\* "nbsp" (XML containing &nbsp;), "html" (only html5lib parses it) or
\* "unparsable" (html5lib returns nothing)
ScoreMsgs ==
    { [json |-> "invalid", keys |-> {}, correct |-> FALSE, score |-> 0, msg |-> "xml"],
      [json |-> "list", keys |-> {}, correct |-> FALSE, score |-> 0, msg |-> "xml"] }
    \cup
    { [json |-> "dict", keys |-> ks, correct |-> TRUE, score |-> 1, msg |-> "xml"] :
         ks \in (SUBSET {"correct", "score", "msg"}) \ {{"correct", "score", "msg"}} }
    \cup
    { [json |-> "dict", keys |-> {"correct", "score", "msg"},
       correct |-> c, score |-> sc, msg |-> mg] :
         c \in BOOLEAN, sc \in (-1)..MaxGraderScore,
         mg \in {"xml", "nbsp", "html", "unparsable"} }

\* CodeResponse._parse_score_msg : (valid_score_msg, correct, score, msg)
ParseScoreMsg(score_msg) ==
    LET fail == [valid |-> FALSE, correct |-> FALSE, score |-> 0, msg |-> ""] IN
    IF score_msg.json = "invalid" THEN fail
    ELSE IF score_msg.json # "dict" THEN fail
    ELSE IF \E tag \in {"correct", "score", "msg"} : tag \notin score_msg.keys THEN fail
    ELSE IF score_msg.msg = "unparsable" THEN fail
    ELSE [valid |-> TRUE, correct |-> score_msg.correct,
          score |-> score_msg.score, msg |-> score_msg.msg]

\* msg.replace('&nbsp;', '&#160;')
ReplaceNbsp(msg) == IF msg = "nbsp" THEN "#160" ELSE msg

\* get_score that leaves the queue state in the map when the request could
\* not be delivered
CodeGetScore_QueuedOnError(c, submission, qtime, error) ==
    LET aid == c.answer_ids[1] IN
    IF IsNone(submission)
    THEN [raised |-> "Exception", cmap |-> EmptyDict]
    ELSE IF ~c.xqueue
    THEN [raised |-> "",
          cmap |-> CorrectMapSet(EmptyDict, aid, "None", None, "no_grader", None)]
    ELSE LET queuekey == MakeHashkey(qtime, aid)
             queuestate == [key |-> queuekey, time |-> qtime]
         IN  IF error
             THEN [raised |-> "",
                   cmap |-> CorrectMapSet(EmptyDict, aid, "None", None,
                                          "unable_to_deliver", Some(queuestate))]
             ELSE [raised |-> "",
                   cmap |-> CorrectMapSet(EmptyDict, aid, "incomplete", None,
                                          "queue_length", Some(queuestate))]

\* CodeResponse.get_score.  submission: None when student_answers has no
\* entry for the answer field; error: the flag send_to_queue returns.
\* Returns the exception raised ("" for none) and the new map.
CodeGetScore(c, submission, qtime, error) ==
    LET aid == c.answer_ids[1] IN
    IF IsNone(submission)
    THEN [raised |-> "Exception", cmap |-> EmptyDict]
    ELSE IF ~c.xqueue
    THEN [raised |-> "",
          cmap |-> CorrectMapSet(EmptyDict, aid, "None", None, "no_grader", None)]
    ELSE LET queuekey == MakeHashkey(qtime, aid)
             queuestate == [key |-> queuekey, time |-> qtime]
         IN  IF error
             THEN [raised |-> "",
                   cmap |-> CorrectMapSet(EmptyDict, aid, "None", None,
                                          "unable_to_deliver", None)]
             ELSE [raised |-> "",
                   cmap |-> CorrectMapSet(EmptyDict, aid, "incomplete", None,
                                          "queue_length", Some(queuestate))]

\* update_score that applies every well-formed reply, whatever its key
UpdateScore_NoKeyCheck(c, score_msg, oldcmap, queuekey) ==
    LET aid == c.answer_ids[1]
        p == ParseScoreMsg(score_msg)
    IN  IF ~p.valid
        THEN CorrectMapSet(oldcmap, aid, "None", None, "invalid_reply", None)
        ELSE LET correctness == IF p.correct THEN "correct" ELSE "incorrect"
                 points == IF p.score < 0 THEN 0 ELSE p.score
             IN  CorrectMapSet(oldcmap, aid, correctness, Some(points),
                               ReplaceNbsp(p.msg), None)

\* CodeResponse.update_score : the map it returns (oldcmap, changed in place)
UpdateScore(c, score_msg, oldcmap, queuekey) ==
    LET aid == c.answer_ids[1]
        p == ParseScoreMsg(score_msg)
    IN  IF ~p.valid
        THEN CorrectMapSet(oldcmap, aid, "None", None, "invalid_reply", None)
        ELSE LET correctness == IF p.correct THEN "correct" ELSE "incorrect" IN
             IF CorrectMapIsRightQueuekey(oldcmap, aid, queuekey)
             THEN LET points == IF p.score < 0 THEN 0 ELSE p.score IN
                  CorrectMapSet(oldcmap, aid, correctness, Some(points),
                                ReplaceNbsp(p.msg), None)
             ELSE oldcmap

RECURSIVE CustomSetAll(_, _, _, _, _)
\* the loop of CustomResponse.get_score that fills the map: full points for
\* a field the check function marked 'correct', 0 otherwise
CustomSetAll(m, idset, correct, maxpoints, k) ==
    IF k > Len(idset) THEN m
    ELSE LET npoints == IF correct[idset[k]] = "correct" THEN maxpoints[idset[k]] ELSE 0
         IN  CustomSetAll(CorrectMapSet(m, idset[k], correct[idset[k]], Some(npoints),
                                        "", None),
                          idset, correct, maxpoints, k + 1)

\* CustomResponse.get_score.  answered: the fields present in
\* student_answers; empty: the fields whose submission is empty;
\* correct: the verdicts the check function leaves in the context, None
\* when it raises.
CustomGetScore(c, answered, empty, correct) ==
    LET idset == c.answer_ids IN
    IF \E k \in SeqToSet(idset) : k \notin answered
    THEN [raised |-> "Exception", cmap |-> EmptyDict]
    ELSE IF Len(idset) = 1 /\ idset[1] \in empty
    THEN [raised |-> "",
          cmap |-> CorrectMapSet(EmptyDict, idset[1], "incorrect", None, "", None)]
    ELSE IF IsNone(correct)
    THEN [raised |-> "ResponseError", cmap |-> EmptyDict]
    ELSE [raised |-> "",
          cmap |-> CustomSetAll(EmptyDict, idset, correct[1], c.maxpoints, 1)]

NoOp == [op |-> "none", pre |-> EmptyDict, raised |-> "", valid |-> FALSE,
         key |-> None, sent |-> None, answered |-> FALSE, stale |-> FALSE]

CodeInit ==
    /\ code \in CodeConfigs
    /\ clock = 0
    /\ cmap = EmptyDict
    /\ last = NoOp

CodeIdle ==
    /\ resp = None
    /\ pc = "idle"
    /\ student_answers = EmptyDict
    /\ new_cmap = None
    /\ trace = <<>>
    /\ branches = None
    /\ result = None
    /\ problem = None
    /\ inst = None
    /\ calls = None
    /\ mclast = None

\* time passes between the requests of a coderesponse (qtime of get_score is
\* the only reading of the clock)
Tick ==
    /\ code.kind = "code"
    /\ clock < MaxTime
    /\ clock' = clock + 1
    /\ UNCHANGED <<code, cmap, last>>

\* the problem grades a submission of a coderesponse: get_score is called
\* and the map it returns becomes the problem's map; when it raises the
\* problem keeps its map.  last.sent remembers the request the queue
\* accepted, last.answered that a well-formed reply carrying its key came,
\* last.stale that a well-formed reply with another key came before.
CodeGetScoreCall ==
    /\ code.kind = "code"
    /\ \E submission \in {None, Some("text"), Some("files")} :
       \E error \in BOOLEAN :
          LET r == CodeGetScore(code, submission, clock, error) IN
          /\ cmap' = IF r.raised # "" THEN cmap ELSE r.cmap
          /\ last' = [op |-> "get_score", pre |-> cmap, raised |-> r.raised,
                      valid |-> FALSE, key |-> None,
                      sent |-> IF r.raised # "" THEN last.sent
                               ELSE IF code.xqueue /\ ~error
                               THEN Some([key |-> MakeHashkey(clock, 1), time |-> clock])
                               ELSE None,
                      answered |-> IF r.raised # "" THEN last.answered ELSE FALSE,
                      stale |-> IF r.raised # "" THEN last.stale ELSE FALSE]
    /\ UNCHANGED <<code, clock>>

\* the grader's reply arrives: update_score(score_msg, oldcmap, queuekey) on
\* the problem's map
UpdateScoreCall ==
    /\ code.kind = "code"
    /\ \E score_msg \in ScoreMsgs :
       \E queuekey \in QueueKeys :
          LET valid == ParseScoreMsg(score_msg).valid IN
          /\ cmap' = UpdateScore(code, score_msg, cmap, queuekey)
          /\ last' = [op |-> "update_score", pre |-> cmap, raised |-> "",
                      valid |-> valid, key |-> Some(queuekey),
                      sent |-> last.sent,
                      answered |-> \/ last.answered
                                   \/ /\ valid
                                      /\ ~IsNone(last.sent)
                                      /\ last.sent[1].key = queuekey,
                      stale |-> \/ last.stale
                                \/ /\ valid
                                   /\ ~IsNone(last.sent)
                                   /\ ~last.answered
                                   /\ last.sent[1].key # queuekey]
    /\ UNCHANGED <<code, clock>>

\* the problem grades a submission of a customresponse.  Emptiness of a
\* submission is only read when there is one field, and the check function
\* only runs when every field was submitted, so the inputs that are never
\* read are not enumerated.
CustomGetScoreCall ==
    /\ code.kind = "custom"
    /\ \E answered \in SUBSET SeqToSet(code.answer_ids) :
       \E empty \in IF Len(code.answer_ids) = 1 THEN SUBSET answered ELSE {{}} :
       \E correct \in IF answered # SeqToSet(code.answer_ids) THEN {None}
                      ELSE {None} \cup
                           { Some(f) : f \in [SeqToSet(code.answer_ids) ->
                                         {"correct", "incorrect", "unknown"}] } :
          LET r == CustomGetScore(code, answered, empty, correct) IN
          /\ cmap' = IF r.raised # "" THEN cmap ELSE r.cmap
          /\ last' = [NoOp EXCEPT !.op = "get_score", !.pre = cmap,
                                  !.raised = r.raised]
    /\ UNCHANGED <<code, clock>>

InitCode == CodeInit /\ CodeIdle

NextCode ==
    \/ Tick /\ UNCHANGED <<evalVars, mcVars>>
    \/ CodeGetScoreCall /\ UNCHANGED <<evalVars, mcVars>>
    \/ UpdateScoreCall /\ UNCHANGED <<evalVars, mcVars>>
    \/ CustomGetScoreCall /\ UNCHANGED <<evalVars, mcVars>>

SpecCode == InitCode /\ [][NextCode]_vars

(***************************************************************************)
(* MultipleChoiceResponse: shuffle and answer-pool transforms              *)
(***************************************************************************)

MaxChoices == 3     \* most choices in the choicegroup of the first response
MaxPool == 3        \* largest answer-pool attribute
MaxSeed == 1        \* seeds of the context are 0..MaxSeed
MaxCalls == 2       \* late_transforms calls followed per problem instance

\* random.Random(seed): a deterministic generator; its state after seeding
\* and after each draw is a function of the seed and the draws made
RngModulus == 17
RngMultiplier == 5
RngIncrement == 2

RngSeed(seed) == seed % RngModulus

RngNext(s) == (s * RngMultiplier + RngIncrement) % RngModulus

\* one draw of an integer in 0..n-1 : int(random() * n)
RandBelow(s, n) == [state |-> RngNext(s), value |-> RngNext(s) % n]

RECURSIVE FisherYates(_, _, _)
\* the loop of Random.shuffle: for i from the last position down to the
\* second, swap x[i] with x[j] for a drawn j <= i
FisherYates(x, s, i) ==
    IF i < 2 THEN [list |-> x, state |-> s]
    ELSE LET d == RandBelow(s, i)
             j == d.value + 1
         IN  FisherYates([x EXCEPT ![i] = x[j], ![j] = x[i]], d.state, i - 1)

\* rng.shuffle(x)
RngShuffle(x, s) == FisherYates(x, s, Len(x))

\* str.upper() on the values a correct attribute takes in the model
Upper(v) ==
    CASE v = "true" -> "TRUE"
      [] v = "True" -> "TRUE"
      [] v = "false" -> "FALSE"
      [] OTHER -> v

\* a <choice>: id is its position in the XML source (its name is derived
\* from it), correct and fixed are its attributes, explanation-id is its id
Choices(idx) == [id : {idx}, correct : {"true", "false"}, fixed : {"true", "false"}]

RECURSIVE ChoiceLists(_)
\* the child lists of a choicegroup with n choices
ChoiceLists(n) ==
    IF n = 0 THEN { <<>> }
    ELSE { Append(l, c) : l \in ChoiceLists(n - 1), c \in Choices(n) }

\* the answer-pool attribute: is_zero is num_str == '0', int is int(num_str)
\* (None when int() raises ValueError); "00" is the zero that is not '0'
PoolAttrs ==
    { None,
      Some([is_zero |-> TRUE, int |-> Some(0)]),
      Some([is_zero |-> FALSE, int |-> Some(0)]),
      Some([is_zero |-> FALSE, int |-> None]) }
    \cup { Some([is_zero |-> FALSE, int |-> Some(k)]) : k \in ((-1)..MaxPool) \ {0} }

\* choicegroups of the first response of the problem
ChoiceGroups ==
    UNION { [shuffle : {"true", "false"}, pool : PoolAttrs, children : ChoiceLists(n)] :
               n \in 1..MaxChoices }

\* a second response sharing the problem (and its rng), if any
SecondGroups ==
    { None,
      Some([shuffle |-> "true", pool |-> None,
            children |-> <<[id |-> 1, correct |-> "true", fixed |-> "false"],
                           [id |-> 2, correct |-> "false", fixed |-> "false"],
                           [id |-> 3, correct |-> "false", fixed |-> "false"]>>]),
      Some([shuffle |-> "false", pool |-> Some([is_zero |-> FALSE, int |-> Some(2)]),
            children |-> <<[id |-> 1, correct |-> "true", fixed |-> "false"],
                           [id |-> 2, correct |-> "false", fixed |-> "false"],
                           [id |-> 3, correct |-> "true", fixed |-> "false"]>>]) }

\* the solutions of the solutionset that follows the response: one per
\* correct choice, found by its explanation-id
SolutionsOf(children) ==
    { children[i].id : i \in { j \in 1..Len(children) :
                                   Upper(children[j].correct) = "TRUE" } }

\* a response instance after setup_response: the working copy of its
\* choicegroup and the two flags that do not exist yet
NewResponse(g) ==
    [shuffle |-> g.shuffle, pool |-> g.pool, children |-> g.children,
     solutions |-> SolutionsOf(g.children),
     has_shuffle |-> FALSE, has_answerpool |-> FALSE]

\* a problem instance born with a generator seeded with 0
NewInstance_EagerRng(groups) ==
    [rng |-> Some(RngSeed(0)), created |-> 0,
     responses |-> [r \in DOMAIN groups |-> NewResponse(groups[r])]]

\* a problem instance: no _shared_rng attribute yet; created counts the
\* executions of random.Random(seed) in get_rng
NewInstance(groups) ==
    [rng |-> None, created |-> 0,
     responses |-> [r \in DOMAIN groups |-> NewResponse(groups[r])]]

\* get_rng that seeds the generator from a process-wide counter (the
\* instances transformed so far) instead of the seed of the context
GetRng_GlobalSeed(p, seed) ==
    IF IsNone(p.rng)
    THEN [p EXCEPT !.rng = Some(RngSeed(Cardinality({i \in DOMAIN calls :
                                                       calls[i] # <<>>}))),
                   !.created = @ + 1]
    ELSE p

\* MultipleChoiceResponse.get_rng on problem instance p
GetRng(p, seed) ==
    IF IsNone(p.rng)
    THEN [p EXCEPT !.rng = Some(RngSeed(seed)), !.created = @ + 1]
    ELSE p

\* leading run of fixed choices
RECURSIVE HeadOf(_)
HeadOf(choices) ==
    IF choices # <<>> /\ Head(choices).fixed = "true"
    THEN <<Head(choices)>> \o HeadOf(Tail(choices))
    ELSE <<>>

\* shuffle_choices that holds every fixed choice back at the head
ShuffleChoices_FixedFirst(choices, s) ==
    LET head == SelectSeq(choices, LAMBDA c : c.fixed = "true")
        middle == SelectSeq(choices, LAMBDA c : c.fixed # "true")
        sh == RngShuffle(middle, s)
    IN  [list |-> head \o sh.list, state |-> sh.state]

\* MultipleChoiceResponse.shuffle_choices
ShuffleChoices(choices, s) ==
    LET head == HeadOf(choices)
        rest == SubSeq(choices, Len(head) + 1, Len(choices))
        tail == SelectSeq(rest, LAMBDA c : c.fixed = "true")
        middle == SelectSeq(rest, LAMBDA c : c.fixed # "true")
        sh == RngShuffle(middle, s)
    IN  [list |-> head \o sh.list \o tail, state |-> sh.state]

\* the Python slice x[:n]
SliceTo(x, n) ==
    IF n >= 0 THEN SubSeq(x, 1, Min(n, Len(x)))
    ELSE SubSeq(x, 1, Max(0, Len(x) + n))

\* sample_from_answer_pool that keeps num_pool incorrect choices
SampleFromAnswerPool_OneTooMany(choices, s, num_pool) ==
    LET correct_choices == SelectSeq(choices, LAMBDA c : Upper(c.correct) = "TRUE")
        incorrect_choices == SelectSeq(choices, LAMBDA c : Upper(c.correct) # "TRUE")
    IN  IF \E i \in 1..Len(choices) : choices[i].correct = "absent"
        THEN [raised |-> "AttributeError", solution_id |-> 0,
              subset |-> <<>>, state |-> s]
        ELSE
        IF Len(correct_choices) < 1 \/ Len(incorrect_choices) < 1
        THEN [raised |-> "LoncapaProblemError", solution_id |-> 0,
              subset |-> <<>>, state |-> s]
        ELSE LET num_incorrect == Min(num_pool, Len(incorrect_choices))
                 d == RandBelow(s, Len(correct_choices))
                 correct_choice == correct_choices[d.value + 1]
                 sh == RngShuffle(incorrect_choices, d.state)
                 sh2 == RngShuffle(<<correct_choice>> \o SliceTo(sh.list, num_incorrect),
                                   sh.state)
             IN  [raised |-> "", solution_id |-> correct_choice.id,
                  subset |-> sh2.list, state |-> sh2.state]

\* MultipleChoiceResponse.sample_from_answer_pool.  choice.get('correct') is
\* None for a choice without the attribute ("absent"), and None.upper()
\* raises AttributeError in the partition loop.
SampleFromAnswerPool(choices, s, num_pool) ==
    LET correct_choices == SelectSeq(choices, LAMBDA c : Upper(c.correct) = "TRUE")
        incorrect_choices == SelectSeq(choices, LAMBDA c : Upper(c.correct) # "TRUE")
    IN  IF \E i \in 1..Len(choices) : choices[i].correct = "absent"
        THEN [raised |-> "AttributeError", solution_id |-> 0,
              subset |-> <<>>, state |-> s]
        ELSE
        IF Len(correct_choices) < 1 \/ Len(incorrect_choices) < 1
        THEN [raised |-> "LoncapaProblemError", solution_id |-> 0,
              subset |-> <<>>, state |-> s]
        ELSE LET num_incorrect == Min(num_pool - 1, Len(incorrect_choices))
                 d == RandBelow(s, Len(correct_choices))
                 correct_choice == correct_choices[d.value + 1]
                 sh == RngShuffle(incorrect_choices, d.state)
                 sh2 == RngShuffle(<<correct_choice>> \o SliceTo(sh.list, num_incorrect),
                                   sh.state)
             IN  [raised |-> "", solution_id |-> correct_choice.id,
                  subset |-> sh2.list, state |-> sh2.state]

\* has_shuffle that never finds the flag
HasShuffle_Never(rsp) == FALSE

\* LoncapaResponse.has_shuffle : hasattr(self, '_has_shuffle')
HasShuffle(rsp) == rsp.has_shuffle

\* has_answerpool that never finds the flag
HasAnswerpool_Never(rsp) == FALSE

\* LoncapaResponse.has_answerpool : hasattr(self, '_has_answerpool')
HasAnswerpool(rsp) == rsp.has_answerpool

\* what a transform leaves behind: the exception raised ("" for none), the
\* problem instance, and the call it made to shuffle_choices or
\* sample_from_answer_pool (None when it made none)
Outcome(raised, p, call) == [raised |-> raised, p |-> p, call |-> call]

\* do_shuffle that notes the shuffle in the flag before it looks at the
\* answer-pool attribute
DoShuffle_FlagFirst(p, r, seed) ==
    LET rsp == p.responses[r] IN
    IF rsp.shuffle = "true"
    THEN IF HasShuffle(rsp) THEN Outcome("", p, None)
         ELSE IF ~IsNone(rsp.pool)
         THEN Outcome("LoncapaProblemError",
                      [p EXCEPT !.responses[r].has_shuffle = TRUE], None)
         ELSE LET g == GetRng(p, seed)
                  sh == ShuffleChoices(rsp.children, g.rng[1])
              IN  Outcome("",
                          [g EXCEPT !.rng = Some(sh.state),
                                    !.responses[r].has_shuffle = TRUE,
                                    !.responses[r].children = sh.list],
                          Some([in |-> rsp.children, k |-> 0, out |-> sh.list,
                                raised |-> ""]))
    ELSE Outcome("", p, None)

\* MultipleChoiceResponse.do_shuffle on response r of problem instance p
DoShuffle(p, r, seed) ==
    LET rsp == p.responses[r] IN
    IF rsp.shuffle = "true"
    THEN IF ~IsNone(rsp.pool)
         THEN Outcome("LoncapaProblemError", p, None)
         ELSE IF HasShuffle(rsp) THEN Outcome("", p, None)
         ELSE LET g == GetRng(p, seed)
                  sh == ShuffleChoices(rsp.children, g.rng[1])
              IN  Outcome("",
                          [g EXCEPT !.rng = Some(sh.state),
                                    !.responses[r].has_shuffle = TRUE,
                                    !.responses[r].children = sh.list],
                          Some([in |-> rsp.children, k |-> 0, out |-> sh.list,
                                raised |-> ""]))
    ELSE Outcome("", p, None)

\* MultipleChoiceResponse.do_answer_pool on response r of problem instance p
DoAnswerPool(p, r, seed) ==
    LET rsp == p.responses[r] IN
    IF ~IsNone(rsp.pool)
    THEN LET a == rsp.pool[1] IN
         IF a.is_zero THEN Outcome("", p, None)
         ELSE IF IsNone(a.int) THEN Outcome("LoncapaProblemError", p, None)
         ELSE IF HasAnswerpool(rsp) THEN Outcome("", p, None)
         ELSE LET g == GetRng([p EXCEPT !.responses[r].has_answerpool = TRUE,
                                        !.responses[r].children = <<>>], seed)
                  smp == SampleFromAnswerPool(rsp.children, g.rng[1], a.int[1])
                  call == Some([in |-> rsp.children, k |-> a.int[1],
                                out |-> smp.subset, raised |-> smp.raised])
              IN  IF smp.raised # ""
                  THEN Outcome(smp.raised, g, call)
                  ELSE Outcome("",
                               [g EXCEPT !.rng = Some(smp.state),
                                         !.responses[r].children = smp.subset,
                                         !.responses[r].solutions =
                                             @ \cap {smp.solution_id}],
                               call)
    ELSE Outcome("", p, None)

\* MultipleChoiceResponse.late_transforms: do_shuffle, then do_answer_pool
\* unless do_shuffle raised
LateTransforms(p, r, seed) ==
    LET sh == DoShuffle(p, r, seed) IN
    IF sh.raised # ""
    THEN [raised |-> sh.raised, p |-> sh.p, shuffle |-> sh.call, sample |-> None,
          by |-> "do_shuffle"]
    ELSE LET ap == DoAnswerPool(sh.p, r, seed) IN
         [raised |-> ap.raised, p |-> ap.p, shuffle |-> sh.call, sample |-> ap.call,
          by |-> IF ap.raised # "" THEN "do_answer_pool" ELSE ""]

\* the problem: its choicegroups in document order and the seed
Problems(firsts, seconds) ==
    { [seed |-> sd,
       groups |-> IF IsNone(g2) THEN <<g1>> ELSE <<g1, g2[1]>>] :
          sd \in 0..MaxSeed, g1 \in firsts, g2 \in seconds }

MCInitOf(problems, instances) ==
    /\ problem \in problems
    /\ inst = [i \in instances |-> NewInstance(problem.groups)]
    /\ calls = [i \in instances |-> <<>>]
    /\ mclast = None

MCIdle ==
    /\ resp = None
    /\ pc = "idle"
    /\ student_answers = EmptyDict
    /\ new_cmap = None
    /\ trace = <<>>
    /\ branches = None
    /\ result = None
    /\ code = None
    /\ clock = 0
    /\ cmap = EmptyDict
    /\ last = None

\* the problem runs late_transforms on one of its responses
LateTransformsCall ==
    \E i \in DOMAIN inst :
    \E r \in DOMAIN inst[i].responses :
       /\ Len(calls[i]) < MaxCalls
       /\ LET t == LateTransforms(inst[i], r, problem.seed) IN
          /\ inst' = [inst EXCEPT ![i] = t.p]
          /\ mclast' = Some([op |-> "late_transforms",
                             inst |-> i, resp |-> r, pre |-> inst[i],
                             raised |-> t.raised, by |-> t.by,
                             shuffle |-> t.shuffle, sample |-> t.sample])
       /\ calls' = [calls EXCEPT ![i] = Append(@, r)]
       /\ UNCHANGED problem

\* one problem instance, every choicegroup
InitMC == MCInitOf(Problems(ChoiceGroups, SecondGroups), {1}) /\ MCIdle

NextMC == LateTransformsCall /\ UNCHANGED <<evalVars, codeVars>>

SpecMC == InitMC /\ [][NextMC]_vars

\* choicegroups of a problem that renders: a shuffle, which reads only the
\* fixed attribute of a choice, or an answer-pool, which reads only the
\* correct attribute; the attribute that is not read takes one value
PairGroups ==
    { g \in ChoiceGroups :
        /\ Len(g.children) >= 2
        /\ g.pool \in {None, Some([is_zero |-> FALSE, int |-> Some(2)]),
                       Some([is_zero |-> FALSE, int |-> Some(-1)])}
        /\ (g.shuffle = "true") # (~IsNone(g.pool))
        /\ \A i \in 1..Len(g.children) :
              IF g.shuffle = "true"
              THEN g.children[i].correct = (IF i = 1 THEN "true" ELSE "false")
              ELSE g.children[i].fixed = "false" }

\* two problem instances (a render pass and a grade pass) built from the
\* same XML with the same seed
InitPair == MCInitOf(Problems(PairGroups, SecondGroups), {1, 2}) /\ MCIdle

SpecPair == InitPair /\ [][NextMC]_vars

\* what a direct call of one transform leaves in mclast
DirectCall(op, i, r, t) ==
    Some([op |-> op, inst |-> i, resp |-> r, pre |-> inst[i],
          raised |-> t.raised, by |-> IF t.raised # "" THEN op ELSE "",
          shuffle |-> IF op = "do_shuffle" THEN t.call ELSE None,
          sample |-> IF op = "do_answer_pool" THEN t.call ELSE None])

\* do_shuffle(self.xml, problem) is called on a response
DoShuffleCall ==
    \E i \in DOMAIN inst :
    \E r \in DOMAIN inst[i].responses :
       /\ Len(calls[i]) < MaxCalls
       /\ LET t == DoShuffle(inst[i], r, problem.seed) IN
          /\ inst' = [inst EXCEPT ![i] = t.p]
          /\ mclast' = DirectCall("do_shuffle", i, r, t)
       /\ calls' = [calls EXCEPT ![i] = Append(@, r)]
       /\ UNCHANGED problem

\* do_answer_pool(self.xml, problem) is called on a response
DoAnswerPoolCall ==
    \E i \in DOMAIN inst :
    \E r \in DOMAIN inst[i].responses :
       /\ Len(calls[i]) < MaxCalls
       /\ LET t == DoAnswerPool(inst[i], r, problem.seed) IN
          /\ inst' = [inst EXCEPT ![i] = t.p]
          /\ mclast' = DirectCall("do_answer_pool", i, r, t)
       /\ calls' = [calls EXCEPT ![i] = Append(@, r)]
       /\ UNCHANGED problem

\* get_rng(problem) is called on a response; the generator it returns is
\* the one the problem instance holds afterwards
GetRngCall ==
    \E i \in DOMAIN inst :
    \E r \in DOMAIN inst[i].responses :
       /\ Len(calls[i]) < MaxCalls
       /\ LET t == Outcome("", GetRng(inst[i], problem.seed), None) IN
          /\ inst' = [inst EXCEPT ![i] = t.p]
          /\ mclast' = DirectCall("get_rng", i, r, t)
       /\ calls' = [calls EXCEPT ![i] = Append(@, r)]
       /\ UNCHANGED problem

\* one problem instance whose transforms are called one by one
InitDirect == MCInitOf(Problems(PairGroups, SecondGroups), {1}) /\ MCIdle

NextDirect ==
    \/ DoShuffleCall /\ UNCHANGED <<evalVars, codeVars>>
    \/ DoAnswerPoolCall /\ UNCHANGED <<evalVars, codeVars>>
    \/ GetRngCall /\ UNCHANGED <<evalVars, codeVars>>

SpecDirect == InitDirect /\ [][NextDirect]_vars

\* trees handed to do_answer_pool: the correct attribute of a choice is
\* "true", "True", "false" or absent
PoolTrees ==
    UNION { [shuffle : {"false"}, pool : PoolAttrs \ {None},
             children : [1..n -> [id : {0}, correct : {"true", "True", "false", "absent"},
                                  fixed : {"false"}]]] : n \in 1..MaxChoices }

\* the tree with its choices numbered in document order
NumberChoices(g) ==
    [g EXCEPT !.children = [i \in DOMAIN g.children |->
                               [g.children[i] EXCEPT !.id = i]]]

\* do_answer_pool applied to each tree
InitPool ==
    MCInitOf(Problems({ NumberChoices(g) : g \in PoolTrees }, {None}), {1}) /\ MCIdle

NextPool == DoAnswerPoolCall /\ UNCHANGED <<evalVars, codeVars>>

SpecPool == InitPool /\ [][NextPool]_vars

(***************************************************************************)
(* ChoiceResponse                                                          *)
(***************************************************************************)

\* assign_choice_names: the choice at (1-based) position i is named
\* "choice_" + str(i - 1); a name is modelled by that number
ChoiceName(i) == i - 1

\* ChoiceResponse.setup_response on a group whose choices have the correct
\* attributes attrs: the names of the choices with correct="True" or "true"
ChoiceCorrectChoices(attrs) ==
    { ChoiceName(i) : i \in { j \in 1..Len(attrs) : attrs[j] \in {"True", "true"} } }

\* a constructed choiceresponse: one checkboxgroup or radiogroup worth
\* points, no hintgroup
ChoiceConfigs ==
    UNION { { [answer_ids |-> <<1>>,
               maxpoints |-> <<pts>>,
               choices |-> attrs,
               correct_choices |-> ChoiceCorrectChoices(attrs),
               hint_tag |-> Some("choicehint"),
               has_check |-> FALSE,
               has_xml_hooks |-> TRUE,
               schema |-> sch,
               hintgroup |-> None] :
                 attrs \in [1..n -> {"true", "True", "false"}],
                 pts \in {1, MaxPointsAttr},
                 sch \in {None, Some("edXML/1.0")} } : n \in 1..MaxChoices }

\* the names a student can send for a group of n choices: those of the
\* group and one that is not in it
SubmittableNames(n) == 0..n

RECURSIVE SetToSeq(_)
\* a list holding the elements of S once each
SetToSeq(S) ==
    IF S = {} THEN <<>>
    ELSE LET x == CHOOSE y \in S : \A z \in S : y <= z
         IN  <<x>> \o SetToSeq(S \ {x})

\* what student_answers can hold for the field: a single name (radiogroup)
SingleSubmissions(n) ==
    { [is_list |-> FALSE, value |-> x] : x \in SubmittableNames(n) }

\* or a list of names (checkboxgroup), a name possibly twice
ListSubmissions(n) ==
    { [is_list |-> TRUE, value |-> SetToSeq(S)] : S \in SUBSET SubmittableNames(n) }
    \cup { [is_list |-> TRUE, value |-> <<x, x>>] : x \in SubmittableNames(n) }

\* get_score that only asks for the required choices
ChoiceGetScore_RequiredOnly(r, sa) ==
    LET aid == r.answer_ids[1]
        student_answer == IF aid \in DOMAIN sa THEN sa[aid]
                          ELSE [is_list |-> TRUE, value |-> <<>>]
        as_list == IF ~student_answer.is_list THEN <<student_answer.value>>
                   ELSE student_answer.value
        as_set == SeqToSet(as_list)
        required_selected == Cardinality(r.correct_choices \ as_set) = 0
    IN  IF required_selected
        THEN CorrectMapSet(EmptyDict, aid, "correct", None, "", None)
        ELSE CorrectMapSet(EmptyDict, aid, "incorrect", None, "", None)

\* ChoiceResponse.get_score
ChoiceGetScore(r, sa) ==
    LET aid == r.answer_ids[1]
        student_answer == IF aid \in DOMAIN sa THEN sa[aid]
                          ELSE [is_list |-> TRUE, value |-> <<>>]
        as_list == IF ~student_answer.is_list THEN <<student_answer.value>>
                   ELSE student_answer.value
        as_set == SeqToSet(as_list)
        required_selected == Cardinality(r.correct_choices \ as_set) = 0
        no_extra_selected == Cardinality(as_set \ r.correct_choices) = 0
    IN  IF required_selected /\ no_extra_selected
        THEN CorrectMapSet(EmptyDict, aid, "correct", None, "", None)
        ELSE CorrectMapSet(EmptyDict, aid, "incorrect", None, "", None)

ChoiceInit ==
    /\ resp \in ChoiceConfigs
    /\ pc = "idle"
    /\ student_answers = EmptyDict
    /\ new_cmap = None
    /\ trace = <<>>
    /\ branches = None
    /\ result = None

\* evaluate_answers on a choiceresponse: get_score, then get_hints on the
\* map it returned.  matched: whether a compoundhint of the XML matches the
\* selection.
ChoiceEvaluate(sa, matched) ==
    LET scored == ChoiceGetScore(resp, sa)
        h == GetHints(resp, sa, scored, 0, matched, {})
    IN  /\ student_answers' = sa
        /\ new_cmap' = Some(h.cmap)
        /\ branches' = Some([arms |-> h.arms, hooks |-> h.hooks,
                              checked |-> h.checked])
        /\ trace' = <<"get_score", "get_hints">>
        /\ pc' = IF h.raised # "" THEN "raised" ELSE "returned"
        /\ result' = IF h.raised # "" THEN None ELSE Some(h.cmap)
        /\ UNCHANGED resp

\* the student sent nothing, a single name or a list of names
ChoiceEvaluateAnswers ==
    \E matched \in BOOLEAN :
       \/ ChoiceEvaluate(EmptyDict, matched)
       \/ \E v \in SingleSubmissions(Len(resp.choices)) :
             ChoiceEvaluate([k \in {1} |-> v], matched)
       \/ \E v \in ListSubmissions(Len(resp.choices)) :
             ChoiceEvaluate([k \in {1} |-> v], matched)

InitChoice == ChoiceInit /\ EvalIdle

NextChoice == ChoiceEvaluateAnswers /\ UNCHANGED <<codeVars, mcVars>>

SpecChoice == InitChoice /\ [][NextChoice]_vars

(***************************************************************************)
(* LoncapaResponse.__init__                                                *)
(***************************************************************************)

\* Response types with their class attributes.  max_inputfields is 0 for
\* None.  setup lists the setup_response bodies that run, in order, when
\* the hook of the type is called: each body first calls the body of its
\* parent class (the body of LoncapaResponse is `pass` and is left out);
\* SymbolicResponse.setup_response calls super().setup_response(), sets
\* cfn, and calls super().setup_response() again.
ResponseTypes ==
    { [tag |-> "choiceresponse", max_inputfields |-> 1,
       allowed_inputfields |-> {"checkboxgroup", "radiogroup"},
       required_attributes |-> {},
       setup |-> <<"ChoiceResponse">>],
      [tag |-> "optionresponse", max_inputfields |-> 0,
       allowed_inputfields |-> {"optioninput"},
       required_attributes |-> {},
       setup |-> <<"OptionResponse">>],
      [tag |-> "numericalresponse", max_inputfields |-> 1,
       allowed_inputfields |-> {"textline", "formulaequationinput"},
       required_attributes |-> {"answer"},
       setup |-> <<"NumericalResponse">>],
      [tag |-> "formularesponse", max_inputfields |-> 1,
       allowed_inputfields |-> {"textline", "formulaequationinput"},
       required_attributes |-> {"answer", "samples"},
       setup |-> <<"FormulaResponse">>],
      [tag |-> "customresponse", max_inputfields |-> 0,
       allowed_inputfields |-> {"textline", "textbox", "jsinput", "formulaequationinput"},
       required_attributes |-> {},
       setup |-> <<"CustomResponse">>],
      [tag |-> "symbolicresponse", max_inputfields |-> 1,
       allowed_inputfields |-> {"textline", "textbox", "jsinput", "formulaequationinput"},
       required_attributes |-> {},
       setup |-> <<"CustomResponse", "SymbolicResponse", "CustomResponse">>] }

\* an input field: its tag and its points attribute ("absent", a number
\* or text that is no number)
InputFields == [tag : {"textline", "optioninput", "radiogroup"},
                points : {"absent", "2", "x"}]

\* the attributes of the response element that some type requires: absent,
\* present and empty, or present with a value
XmlAttributes == [{"answer", "samples"} -> {"absent", "empty", "value"}]

\* the arguments of the constructor
ConstructorInputs ==
    UNION { [type : ResponseTypes, inputfields : [1..n -> InputFields],
             attrs : XmlAttributes] : n \in 0..MaxAnswerIds }

\* what the constructor did: the exception that left it ("" for none) and
\* the steps it completed, in order
Constructed(raised, steps) == [raised |-> raised, steps |-> steps]

\* the steps of the setup hook
SetupSteps(t) == [i \in 1..Len(t.setup) |-> <<"setup", t.setup[i]>>]

\* a constructor that does not compare the number of input fields with
\* max_inputfields
Construct_NoCountCheck(c, setup_raises) ==
    LET t == c.type
        n == Len(c.inputfields)
        built == << <<"validated">>, <<"answer_ids">>, <<"maxpoints">>,
                    <<"default_answer_map">> >>
    IN  IF \E i \in 1..n : c.inputfields[i].tag \notin t.allowed_inputfields
        THEN Constructed("LoncapaProblemError", <<>>)
        ELSE IF \E prop \in t.required_attributes : c.attrs[prop] # "value"
        THEN Constructed("LoncapaProblemError", <<>>)
        ELSE IF t.max_inputfields = 1 /\ n = 0
        THEN Constructed("IndexError", << <<"validated">> >>)
        ELSE IF \E i \in 1..n : c.inputfields[i].points = "x"
        THEN Constructed("ValueError", << <<"validated">>, <<"answer_ids">> >>)
        ELSE Constructed(IF setup_raises THEN "Exception" ELSE "",
                         built \o SetupSteps(t))

\* LoncapaResponse.__init__.  setup_raises: the last body of the setup hook
\* ends in an exception.
Construct(c, setup_raises) ==
    LET t == c.type
        n == Len(c.inputfields)
        built == << <<"validated">>, <<"answer_ids">>, <<"maxpoints">>,
                    <<"default_answer_map">> >>
    IN  IF \E i \in 1..n : c.inputfields[i].tag \notin t.allowed_inputfields
        THEN Constructed("LoncapaProblemError", <<>>)
        ELSE IF t.max_inputfields # 0 /\ n > t.max_inputfields
        THEN Constructed("LoncapaProblemError", <<>>)
        ELSE IF \E prop \in t.required_attributes : c.attrs[prop] # "value"
        THEN Constructed("LoncapaProblemError", <<>>)
        ELSE IF t.max_inputfields = 1 /\ n = 0
        THEN Constructed("IndexError", << <<"validated">> >>)
        ELSE IF \E i \in 1..n : c.inputfields[i].points = "x"
        THEN Constructed("ValueError", << <<"validated">>, <<"answer_ids">> >>)
        ELSE Constructed(IF setup_raises THEN "Exception" ELSE "",
                         built \o SetupSteps(t))

\* before the constructor is called: resp holds its arguments
ConstructorInit ==
    /\ resp \in ConstructorInputs
    /\ pc = "new"
    /\ student_answers = EmptyDict
    /\ new_cmap = None
    /\ trace = <<>>
    /\ branches = None
    /\ result = None

\* the response is constructed
ConstructCall ==
    /\ pc = "new"
    /\ \E setup_raises \in BOOLEAN :
          LET c == Construct(resp, setup_raises) IN
          /\ trace' = c.steps
          /\ result' = Some(c)
          /\ pc' = IF c.raised # "" THEN "raised" ELSE "constructed"
    /\ UNCHANGED <<resp, student_answers, new_cmap, branches>>

InitConstructor == ConstructorInit /\ EvalIdle

NextConstructor == ConstructCall /\ UNCHANGED <<codeVars, mcVars>>

SpecConstructor == InitConstructor /\ [][NextConstructor]_vars

(***************************************************************************)
(* NumericalResponse                                                       *)
(***************************************************************************)

MaxGrid == 5    \* real values are the grid points 0..MaxGrid

\* Real values are points of a grid of adjacent floating-point numbers of
\* one binade: the value v stands for base + v ulps.  float_info.epsilon
\* scaled by the magnitude m of the values compared lies between 1 and 2
\* ulps of the binade of m, so it covers a distance of one grid point and
\* not of two.
EpsilonUlps == 1

\* numeric text, by what evaluator (or complex()) makes of it: a real value,
\* a complex value, nan, or text whose evaluation fails
RealTexts == [kind : {"real"}, v : 0..MaxGrid]

FailingKinds == {"undefined_variable", "factorial", "value_error", "syntax", "other"}

StudentTexts ==
    RealTexts \cup [kind : {"complex"} \cup FailingKinds, v : {0}]

StaffTexts ==
    RealTexts \cup [kind : {"complex", "nan", "syntax"}, v : {0}]

\* evaluator({}, {}, text): the exception it raises ("" for none) and the
\* value; the exceptions are those get_score catches
Evaluator(text) ==
    CASE text.kind = "undefined_variable" -> [raised |-> "UndefinedVariable", value |-> text]
      [] text.kind = "factorial" -> [raised |-> "ValueError:factorial", value |-> text]
      [] text.kind = "value_error" -> [raised |-> "ValueError", value |-> text]
      [] text.kind = "syntax" -> [raised |-> "ParseException", value |-> text]
      [] text.kind = "other" -> [raised |-> "Exception", value |-> text]
      [] OTHER -> [raised |-> "", value |-> text]

Abs(x) == IF x < 0 THEN -x ELSE x

\* util.compare_with_tolerance(value, reference, tolerance, relative): with
\* relative=True the tolerance is machine epsilon scaled by the magnitude
\* of the values; complex numbers compare by the modulus of the
\* difference (a complex value of the model is no real value)
CompareWithTolerance(value, reference, tolerance, relative) ==
    IF value.kind = "real" /\ reference.kind = "real"
    THEN Abs(value.v - reference.v) <= (IF relative THEN EpsilonUlps ELSE tolerance)
    ELSE value.kind = "complex" /\ reference.kind = "complex"

\* NumericalResponse.get_staff_ans
GetStaffAns(answer) ==
    LET e == Evaluator(answer) IN
    IF e.raised # "" THEN [raised |-> "StudentInputError", value |-> answer]
    ELSE [raised |-> "", value |-> e.value]

\* a numericalresponse after setup_response: an interval with the
\* inclusion of each side, or a single answer with an absolute tolerance
NumericalConfigs ==
    [range_tolerance : {TRUE}, inclusion : BOOLEAN \X BOOLEAN,
     answer_range : StaffTexts \X StaffTexts, correct_answer : {[kind |-> "real", v |-> 0]},
     tolerance : {0}]
    \cup
    [range_tolerance : {FALSE}, inclusion : {<<FALSE, FALSE>>},
     answer_range : {<<[kind |-> "real", v |-> 0], [kind |-> "real", v |-> 0]>>},
     correct_answer : StaffTexts, tolerance : {0, 1}]

\* the outcome of a scoring call: exception ("" for none) and verdict
Scored(raised, correct) == [raised |-> raised, correct |-> correct]

\* one boundary of the loop over zip(self.inclusion, self.answer_range)
CheckBoundary(student_float, answer) ==
    LET b == GetStaffAns(answer) IN
    IF b.raised # "" THEN [raised |-> b.raised, hit |-> FALSE]
    ELSE IF b.value.kind = "complex" THEN [raised |-> "StudentInputError", hit |-> FALSE]
    ELSE IF b.value.kind = "nan" THEN [raised |-> "StudentInputError", hit |-> FALSE]
    ELSE [raised |-> "",
          hit |-> CompareWithTolerance(student_float, b.value, EpsilonUlps, TRUE)]

\* get_score that takes every value from the lower to the upper boundary
NumericalGetScore_Closed(r, sa) ==
    IF 1 \notin DOMAIN sa THEN Scored("KeyError", FALSE)
    ELSE LET e == Evaluator(sa[1]) IN
    IF e.raised # "" THEN Scored("StudentInputError", FALSE)
    ELSE IF r.range_tolerance
    THEN IF e.value.kind = "complex" THEN Scored("StudentInputError", FALSE)
         ELSE LET lo == CheckBoundary(e.value, r.answer_range[1])
                  hi == CheckBoundary(e.value, r.answer_range[2])
              IN  IF lo.raised # "" THEN Scored(lo.raised, FALSE)
                  ELSE IF hi.raised # "" THEN Scored(hi.raised, FALSE)
                  ELSE Scored("", /\ r.answer_range[1].v <= e.value.v
                                  /\ e.value.v <= r.answer_range[2].v)
    ELSE LET c == GetStaffAns(r.correct_answer) IN
         IF c.raised # "" THEN Scored(c.raised, FALSE)
         ELSE Scored("", CompareWithTolerance(e.value, c.value, r.tolerance, FALSE))

\* NumericalResponse.get_score
NumericalGetScore(r, sa) ==
    IF 1 \notin DOMAIN sa THEN Scored("KeyError", FALSE)
    ELSE LET e == Evaluator(sa[1]) IN
    IF e.raised # "" THEN Scored("StudentInputError", FALSE)
    ELSE IF r.range_tolerance
    THEN IF e.value.kind = "complex" THEN Scored("StudentInputError", FALSE)
         ELSE LET lo == CheckBoundary(e.value, r.answer_range[1]) IN
              IF lo.raised # "" THEN Scored(lo.raised, FALSE)
              ELSE IF lo.hit THEN Scored("", r.inclusion[1])
              ELSE LET hi == CheckBoundary(e.value, r.answer_range[2]) IN
                   IF hi.raised # "" THEN Scored(hi.raised, FALSE)
                   ELSE IF hi.hit THEN Scored("", r.inclusion[2])
                   ELSE Scored("", /\ r.answer_range[1].v < e.value.v
                                   /\ e.value.v < r.answer_range[2].v)
    ELSE LET c == GetStaffAns(r.correct_answer) IN
         IF c.raised # "" THEN Scored(c.raised, FALSE)
         ELSE IF c.value.kind = "nan" THEN Scored("", FALSE)
         ELSE Scored("", CompareWithTolerance(e.value, c.value, r.tolerance, FALSE))

\* NumericalResponse.compare_answer: the exceptions of evaluator are not
\* caught
CompareAnswer(r, ans1, ans2) ==
    LET e1 == Evaluator(ans1)
        e2 == Evaluator(ans2)
    IN  IF e1.raised # "" THEN Scored(e1.raised, FALSE)
        ELSE IF e2.raised # "" THEN Scored(e2.raised, FALSE)
        ELSE Scored("", CompareWithTolerance(e1.value, e2.value, r.tolerance, FALSE))

\* NumericalResponse.validate_answer: only StudentInputError and
\* UndefinedVariable are caught
ValidateAnswer(answer) ==
    LET e == Evaluator(answer) IN
    IF e.raised = "" THEN Scored("", TRUE)
    ELSE IF e.raised \in {"StudentInputError", "UndefinedVariable"} THEN Scored("", FALSE)
    ELSE Scored(e.raised, FALSE)

NumericalInit ==
    /\ resp \in NumericalConfigs
    /\ pc = "idle"
    /\ student_answers = EmptyDict
    /\ new_cmap = None
    /\ trace = <<>>
    /\ branches = None
    /\ result = None

\* get_score(student_answers) is called; the map it returns is made of
\* the verdict
NumericalGetScoreCall ==
    /\ pc = "idle"
    /\ \E sa \in {EmptyDict} \cup { [k \in {1} |-> t] : t \in StudentTexts } :
          LET g == NumericalGetScore(resp, sa) IN
          /\ student_answers' = sa
          /\ result' = Some([op |-> "get_score", texts |-> <<>>, raised |-> g.raised,
                              value |-> g.correct])
          /\ new_cmap' = IF g.raised # "" THEN None
                          ELSE Some(CorrectMapSet(EmptyDict, 1,
                                       IF g.correct THEN "correct" ELSE "incorrect",
                                       None, "", None))
          /\ pc' = IF g.raised # "" THEN "raised" ELSE "returned"
    /\ UNCHANGED <<resp, trace, branches>>

\* compare_answer(ans1, ans2) is called; student_answers and new_cmap
\* describe the last get_score call and are cleared by the other calls
CompareAnswerCall ==
    /\ pc = "idle"
    /\ \E ans1 \in StudentTexts :
       \E ans2 \in StudentTexts :
          LET g == CompareAnswer(resp, ans1, ans2) IN
          /\ result' = Some([op |-> "compare_answer", texts |-> <<ans1, ans2>>,
                              raised |-> g.raised, value |-> g.correct])
          /\ pc' = IF g.raised # "" THEN "raised" ELSE "returned"
    /\ student_answers' = EmptyDict
    /\ new_cmap' = None
    /\ UNCHANGED <<resp, trace, branches>>

\* validate_answer(answer) is called
ValidateAnswerCall ==
    /\ pc = "idle"
    /\ \E answer \in StudentTexts :
          LET g == ValidateAnswer(answer) IN
          /\ result' = Some([op |-> "validate_answer", texts |-> <<answer>>,
                              raised |-> g.raised, value |-> g.correct])
          /\ pc' = IF g.raised # "" THEN "raised" ELSE "returned"
    /\ student_answers' = EmptyDict
    /\ new_cmap' = None
    /\ UNCHANGED <<resp, trace, branches>>

InitNumerical == NumericalInit /\ EvalIdle

NextNumerical ==
    \/ NumericalGetScoreCall /\ UNCHANGED <<codeVars, mcVars>>
    \/ CompareAnswerCall /\ UNCHANGED <<codeVars, mcVars>>
    \/ ValidateAnswerCall /\ UNCHANGED <<codeVars, mcVars>>

SpecNumerical == InitNumerical /\ [][NextNumerical]_vars

(***************************************************************************)
(* StringResponse                                                          *)
(***************************************************************************)

MaxTextLen == 2    \* longest answer pattern and longest submission

\* texts are sequences of characters; a pattern is made of the literal
\* "a", the wildcard "." and the opening parenthesis "(", which nothing in
\* a pattern closes
PatternChars == {"a", ".", "("}
GivenChars == {"a", "A", " "}

TextsOver(chars, lo, hi) == UNION { [1..n -> chars] : n \in lo..hi }

Patterns == TextsOver(PatternChars, 1, MaxTextLen)
Givens == TextsOver(GivenChars, 0, MaxTextLen)
OneCharPatterns == TextsOver(PatternChars, 1, 1)

\* str.lower() of one character and of a text
LowerChar(c) == IF c = "A" THEN "a" ELSE c
Lower(s) == [i \in DOMAIN s |-> LowerChar(s[i])]

\* str.strip()
RECURSIVE LStrip(_)
LStrip(s) == IF s # <<>> /\ Head(s) = " " THEN LStrip(Tail(s)) ELSE s
RECURSIVE RStrip(_)
RStrip(s) ==
    IF s # <<>> /\ s[Len(s)] = " " THEN RStrip(SubSeq(s, 1, Len(s) - 1)) ELSE s
Strip(s) == RStrip(LStrip(s))

\* the answer attribute: segments joined by sep ("_or_" or a spelling of
\* it in other letter case); one segment when the attribute has no
\* separator
Join(segments, sep) ==
    IF Len(segments) = 1 THEN segments[1]
    ELSE segments[1] \o <<sep>> \o segments[2]

\* xml.get('answer').split('_or_')
SplitOr(answer) ==
    IF Len(answer.segments) = 2 /\ answer.sep = "_or_" THEN answer.segments
    ELSE <<Join(answer.segments, answer.sep)>>

\* '_or_' in xml.get('answer').lower()
ContainsOrLower(answer) == Len(answer.segments) = 2

\* the stringresponse elements: answer attribute, type attribute (the
\* regexp and ci words) and additional_answer children
StringXmls ==
    [answer : [segments : {<<p>> : p \in Patterns}, sep : {"_or_"}],
     regexp : BOOLEAN, ci : BOOLEAN,
     additional : {<<>>} \cup {<<q>> : q \in Patterns}]
    \cup
    [answer : [segments : Patterns \X Patterns, sep : {"_or_"}],
     regexp : BOOLEAN, ci : BOOLEAN, additional : {<<>>}]
    \cup
    [answer : [segments : Patterns \X OneCharPatterns, sep : {"_or_"}],
     regexp : BOOLEAN, ci : BOOLEAN, additional : {<< <<".">> >>}]
    \cup
    [answer : [segments : Patterns \X OneCharPatterns, sep : {"_Or_"}],
     regexp : BOOLEAN, ci : BOOLEAN, additional : {<<>>}]

\* StringResponse.setup_response (and setup_response_backward)
StringSetupResponse(xml) ==
    LET backward == ContainsOrLower(xml.answer) IN
    [backward |-> backward, regexp |-> xml.regexp, case_insensitive |-> xml.ci,
     correct_answer |->
        IF backward
        THEN LET parts == SplitOr(xml.answer) IN [i \in DOMAIN parts |-> Strip(parts[i])]
        ELSE LET all == <<Join(xml.answer.segments, xml.answer.sep)>> \o xml.additional
             IN  [i \in DOMAIN all |-> Strip(all[i])],
     xml |-> xml]

StringConfigs == { StringSetupResponse(xml) : xml \in StringXmls }

\* re.compile fails on a pattern with an unclosed parenthesis
Compiles(pattern) == \A i \in DOMAIN pattern : pattern[i] # "("

\* one pattern character against one character of the text, with
\* re.IGNORECASE when ci
CharMatches(pc_, c, ci) ==
    \/ pc_ = "."
    \/ pc_ = c
    \/ ci /\ LowerChar(pc_) = LowerChar(c)

\* pattern matches the text from position k on; the position after the
\* match is k + Len(pattern)
MatchAt(pattern, text, k, ci) ==
    /\ k >= 1
    /\ k + Len(pattern) - 1 <= Len(text)
    /\ \A j \in DOMAIN pattern : CharMatches(pattern[j], text[k + j - 1], ci)

\* re.search(re.compile('^' + '|'.join(expected) + '$'), given): the "^"
\* belongs to the first alternative and the "$" to the last one
ReSearch(expected, given, ci) ==
    \E i \in DOMAIN expected : \E k \in 1..(Len(given) + 1) :
        /\ MatchAt(expected[i], given, k, ci)
        /\ i = 1 => k = 1
        /\ i = Len(expected) => k + Len(expected[i]) - 1 = Len(given)

\* given in expected, in lower case when ci
InList(expected, given, ci) ==
    IF ci THEN \E i \in DOMAIN expected : Lower(expected[i]) = Lower(given)
    ELSE \E i \in DOMAIN expected : expected[i] = given

\* StringResponse.check_string_backward
CheckStringBackward(r, expected, given) == InList(expected, given, r.case_insensitive)

\* check_string without the legacy path
CheckString_Merged(r, expected, given) ==
    IF r.regexp
    THEN IF \E i \in DOMAIN expected : ~Compiles(expected[i])
         THEN [raised |-> "ResponseError", correct |-> FALSE]
         ELSE [raised |-> "", correct |-> ReSearch(expected, given, r.case_insensitive)]
    ELSE [raised |-> "", correct |-> InList(expected, given, r.case_insensitive)]

\* StringResponse.check_string
CheckString(r, expected, given) ==
    IF r.backward
    THEN [raised |-> "", correct |-> CheckStringBackward(r, expected, given)]
    ELSE IF r.regexp
    THEN IF \E i \in DOMAIN expected : ~Compiles(expected[i])
         THEN [raised |-> "ResponseError", correct |-> FALSE]
         ELSE [raised |-> "", correct |-> ReSearch(expected, given, r.case_insensitive)]
    ELSE [raised |-> "", correct |-> InList(expected, given, r.case_insensitive)]

\* get_score that reports a pattern that does not compile as an error of
\* the student's input
StringGetScore_StudentError(r, sa) ==
    IF 1 \notin DOMAIN sa THEN [raised |-> "KeyError", correct |-> FALSE]
    ELSE LET c == CheckString(r, r.correct_answer, Strip(sa[1])) IN
         IF c.raised = "ResponseError"
         THEN [raised |-> "StudentInputError", correct |-> FALSE]
         ELSE c

\* StringResponse.get_score
StringGetScore(r, sa) ==
    IF 1 \notin DOMAIN sa THEN [raised |-> "KeyError", correct |-> FALSE]
    ELSE CheckString(r, r.correct_answer, Strip(sa[1]))

StringInit ==
    /\ resp \in StringConfigs
    /\ pc = "idle"
    /\ student_answers = EmptyDict
    /\ new_cmap = None
    /\ trace = <<>>
    /\ branches = None
    /\ result = None

\* get_score(student_answers) is called on the response
StringGetScoreCall ==
    /\ pc = "idle"
    /\ \E sa \in {EmptyDict} \cup { [k \in {1} |-> t] : t \in Givens } :
          LET g == StringGetScore(resp, sa) IN
          /\ student_answers' = sa
          /\ result' = Some([op |-> "get_score", raised |-> g.raised, value |-> g.correct])
          /\ new_cmap' = IF g.raised # "" THEN None
                         ELSE Some(CorrectMapSet(EmptyDict, 1,
                                     IF g.correct THEN "correct" ELSE "incorrect",
                                     None, "", None))
          /\ pc' = IF g.raised # "" THEN "raised" ELSE "returned"
    /\ UNCHANGED <<resp, trace, branches>>

InitString == StringInit /\ EvalIdle

NextString == StringGetScoreCall /\ UNCHANGED <<codeVars, mcVars>>

SpecString == InitString /\ [][NextString]_vars

(***************************************************************************)
(* ChoiceTextResponse                                                      *)
(***************************************************************************)

MaxTextChoices == 2    \* choices of a choicetextresponse

\* names given by assign_choice_names: the binary choice of index i is
\* <answer_id>_choiceinput_<i>bc, the input inside it is
\* <answer_id>_choiceinput_<i>_numtolerance_input_0
BinaryName(i) == <<"bc", i>>
InputName(i) == <<"numtolerance_input", i>>

\* key.endswith("bc")
EndsWithBc(key) == key[1] = "bc"

\* key.partition("_numtolerance_input_")[0] + "bc"
PartitionParent(key) == <<"bc", key[2]>>

\* one <choice>: its correct attribute and the input inside it ("none",
\* a decoy_input, or a numtolerance_input with answer and tolerance).
\* A staff answer is the real value 1 or text that complex() rejects.
\* Answer and tolerance are read for correct choices only.
TextChoices ==
    [correct : BOOLEAN, input : {"none", "decoy_input"},
     answer : {[kind |-> "real", v |-> 0]}, tolerance : {0}]
    \cup
    [correct : {TRUE}, input : {"numtolerance_input"},
     answer : {[kind |-> "real", v |-> 1], [kind |-> "syntax", v |-> 0]},
     tolerance : {0, 1}]
    \cup
    [correct : {FALSE}, input : {"numtolerance_input"},
     answer : {[kind |-> "real", v |-> 1]}, tolerance : {0}]

\* ChoiceTextResponse.setup_response: correct_choices and correct_inputs
ChoiceTextSetup(choices) ==
    [choices |-> choices,
     correct_choices |-> { BinaryName(i) : i \in { j \in DOMAIN choices : choices[j].correct } },
     correct_inputs |->
        [k \in { InputName(i) : i \in { j \in DOMAIN choices :
                     choices[j].correct /\ choices[j].input = "numtolerance_input" } } |->
            [answer |-> choices[k[2]].answer, tolerance |-> choices[k[2]].tolerance]]]

ChoiceTextConfigs ==
    { ChoiceTextSetup(c) : c \in [1..MaxTextChoices -> TextChoices] }

\* what the student sends for one choice: whether it is selected and the
\* text typed into its input (None: nothing sent for the input)
TypedTexts == {[kind |-> "real", v |-> 1], [kind |-> "real", v |-> 2],
               [kind |-> "syntax", v |-> 0]}

Selected == [kind |-> "selected", v |-> 0]

\* the dict submitted for the answer field, from the selection and the
\* typed texts
AnswerDict(selected, typed) ==
    [k \in { BinaryName(i) : i \in selected } \cup { InputName(i) : i \in DOMAIN typed } |->
        IF EndsWithBc(k) THEN Selected ELSE typed[k[2]]]

\* _split_answers_dict that keeps the inputs of every choice
SplitAnswersDict_KeepAll(a_dict) ==
    LET selected_choices == { k \in DOMAIN a_dict : EndsWithBc(k) }
        selected_inputs == { k \in DOMAIN a_dict : ~EndsWithBc(k) }
    IN  [binary_choices |-> [k \in selected_choices |-> a_dict[k]],
         numtolerance_choices |-> [k \in selected_inputs |-> a_dict[k]]]

\* ChoiceTextResponse._split_answers_dict
SplitAnswersDict(a_dict) ==
    LET selected_choices == { k \in DOMAIN a_dict : EndsWithBc(k) }
        selected_inputs == { k \in DOMAIN a_dict :
                                ~EndsWithBc(k) /\ PartitionParent(k) \in selected_choices }
    IN  [binary_choices |-> [k \in selected_choices |-> a_dict[k]],
         numtolerance_choices |-> [k \in selected_inputs |-> a_dict[k]]]

\* ChoiceTextResponse._check_student_choices
CheckStudentChoices(r, choices) ==
    LET student_choices == DOMAIN choices
        required_selected == Cardinality(r.correct_choices \ student_choices) = 0
        no_extra_selected == Cardinality(student_choices \ r.correct_choices) = 0
    IN  required_selected /\ no_extra_selected

\* one pass of the loop of _check_student_inputs: the exception raised
\* ("" for none) and whether the input counts as wrong
CheckOneInput(r, answer_name, answer_value) ==
    LET known == answer_name \in DOMAIN r.correct_inputs
        correct_ans == IF known THEN r.correct_inputs[answer_name].answer
                       ELSE [kind |-> "real", v |-> 0]
        tolerance == IF known THEN r.correct_inputs[answer_name].tolerance ELSE 0
        e == Evaluator(answer_value)
    IN  IF correct_ans.kind # "real" THEN [raised |-> "StudentInputError", wrong |-> FALSE]
        ELSE IF e.raised # "" THEN [raised |-> "StudentInputError", wrong |-> FALSE]
        ELSE [raised |-> "",
              wrong |-> known /\ ~CompareWithTolerance(e.value, correct_ans, tolerance, FALSE)]

\* ChoiceTextResponse._check_student_inputs.  Every exception of the loop
\* is a StudentInputError, so the order in which the dict is walked does
\* not show in the outcome.
CheckStudentInputs(r, numtolerance_inputs) ==
    LET one(k) == CheckOneInput(r, k, numtolerance_inputs[k]) IN
    IF \E k \in DOMAIN numtolerance_inputs : one(k).raised # ""
    THEN Scored("StudentInputError", FALSE)
    ELSE Scored("", \A k \in DOMAIN numtolerance_inputs : ~one(k).wrong)

\* get_score that grades the binary choices only
ChoiceTextGetScore_ChoicesOnly(r, sa) ==
    LET answer_dict == IF 1 \in DOMAIN sa THEN sa[1] ELSE <<>>
        split == SplitAnswersDict(answer_dict)
        choices_correct == CheckStudentChoices(r, split.binary_choices)
        inputs == CheckStudentInputs(r, split.numtolerance_choices)
    IN  IF inputs.raised # "" THEN Scored(inputs.raised, FALSE)
        ELSE Scored("", choices_correct)

\* ChoiceTextResponse.get_score
ChoiceTextGetScore(r, sa) ==
    LET answer_dict == IF 1 \in DOMAIN sa THEN sa[1] ELSE <<>>
        split == SplitAnswersDict(answer_dict)
        choices_correct == CheckStudentChoices(r, split.binary_choices)
        inputs == CheckStudentInputs(r, split.numtolerance_choices)
    IN  IF inputs.raised # "" THEN Scored(inputs.raised, FALSE)
        ELSE Scored("", choices_correct /\ inputs.correct)

ChoiceTextInit ==
    /\ resp \in ChoiceTextConfigs
    /\ pc = "idle"
    /\ student_answers = EmptyDict
    /\ new_cmap = None
    /\ trace = <<>>
    /\ branches = None
    /\ result = None

\* the choices that have an input to type into
WithInput(r) == { i \in DOMAIN r.choices : r.choices[i].input # "none" }

\* get_score(student_answers) is called with nothing for the answer field
\* or with the dict of the selected choices and typed texts
ChoiceTextGetScoreCall ==
    /\ pc = "idle"
    /\ \E sa \in {EmptyDict} \cup
                 { [k \in {1} |-> AnswerDict(sel, typed)] :
                      sel \in SUBSET (DOMAIN resp.choices),
                      typed \in UNION { [ids -> TypedTexts] : ids \in SUBSET WithInput(resp) } } :
          LET g == ChoiceTextGetScore(resp, sa) IN
          /\ student_answers' = sa
          /\ result' = Some([op |-> "get_score", raised |-> g.raised, value |-> g.correct])
          /\ new_cmap' = IF g.raised # "" THEN None
                         ELSE Some(CorrectMapSet(EmptyDict, 1,
                                     IF g.correct THEN "correct" ELSE "incorrect",
                                     None, "", None))
          /\ pc' = IF g.raised # "" THEN "raised" ELSE "returned"
    /\ UNCHANGED <<resp, trace, branches>>

InitChoiceText == ChoiceTextInit /\ EvalIdle

NextChoiceText == ChoiceTextGetScoreCall /\ UNCHANGED <<codeVars, mcVars>>

SpecChoiceText == InitChoiceText /\ [][NextChoiceText]_vars

(***************************************************************************)
(* MultipleChoiceResponse: setup, get_score and get_answers                *)
(***************************************************************************)

\* MultipleChoiceResponse.setup_response: the names of the choices whose
\* correct attribute is "true" in any letter case, read from the
\* choicegroup as it is at setup; a choice is named after its position
CorrectChoices(g) ==
    { g.children[j].id : j \in { k \in 1..Len(g.children) :
                                    Upper(g.children[k].correct) = "TRUE" } }

\* MultipleChoiceResponse.get_score
MCGetScore(correct_choices, sa) ==
    /\ 1 \in DOMAIN sa
    /\ sa[1] \in correct_choices

\* MultipleChoiceResponse.get_answers
MCGetAnswers(correct_choices) == correct_choices

\* choicegroups with an answer-pool (or none) and no shuffle
ScoreGroups ==
    { g \in ChoiceGroups :
        /\ Len(g.children) >= 2
        /\ g.shuffle = "false"
        /\ g.pool \in {None, Some([is_zero |-> FALSE, int |-> Some(2)])}
        /\ \A i \in 1..Len(g.children) : g.children[i].fixed = "false" }

\* the names of the choices the choicegroup of a response holds
PresentNames(rsp) == { rsp.children[j].id : j \in 1..Len(rsp.children) }

\* what a get_score call leaves in mclast
ScoreCall(i, r, sa, value) ==
    Some([op |-> "get_score", inst |-> i, resp |-> r, pre |-> inst[i],
          raised |-> "", by |-> "", shuffle |-> None, sample |-> None,
          submitted |-> sa, value |-> value])

\* what a get_answers call leaves in mclast
AnswersCall(i, r, answers) ==
    Some([op |-> "get_answers", inst |-> i, resp |-> r, pre |-> inst[i],
          raised |-> "", by |-> "", shuffle |-> None, sample |-> None,
          answers |-> answers])

\* the late transforms of response r of instance i have run without error
Transformed(i, r) ==
    /\ r \in SeqToSet(calls[i])
    /\ ~IsNone(mclast)
    /\ mclast[1].raised = ""

\* get_score(student_answers) is called on a response: nothing submitted,
\* or the name of a choice of the XML, or a name that is not in it (0)
MCGetScoreCall ==
    \E i \in DOMAIN inst :
    \E r \in DOMAIN inst[i].responses :
       /\ Transformed(i, r)
       /\ \E sa \in {EmptyDict} \cup
                    { [k \in {1} |-> n] : n \in 0..Len(problem.groups[r].children) } :
             mclast' = ScoreCall(i, r, sa,
                                 MCGetScore(CorrectChoices(problem.groups[r]), sa))
       /\ UNCHANGED <<problem, inst, calls>>

\* get_answers() is called on a response
MCGetAnswersCall ==
    \E i \in DOMAIN inst :
    \E r \in DOMAIN inst[i].responses :
       /\ Transformed(i, r)
       /\ mclast' = AnswersCall(i, r, MCGetAnswers(CorrectChoices(problem.groups[r])))
       /\ UNCHANGED <<problem, inst, calls>>

InitScore == MCInitOf(Problems(ScoreGroups, {None}), {1}) /\ MCIdle

NextScore ==
    \/ LateTransformsCall /\ UNCHANGED <<evalVars, codeVars>>
    \/ MCGetScoreCall /\ UNCHANGED <<evalVars, codeVars>>
    \/ MCGetAnswersCall /\ UNCHANGED <<evalVars, codeVars>>

SpecScore == InitScore /\ [][NextScore]_vars

(***************************************************************************)
(* mc_setup_response: the names of the choices                             *)
(***************************************************************************)

\* str(i) for the counter of mc_setup_response
Str(i) == <<"0", "1", "2", "3", "4", "5", "6", "7", "8", "9">>[i + 1]

\* name attributes an author writes on a choice
AuthorNames == {"0", "1", "foil"}

\* the name attributes of the choices of a choicegroup, in document order
\* (None: the choice has no name attribute); the names an author wrote are
\* pairwise distinct
AuthoredNames ==
    { names \in UNION { [1..n -> {None} \cup { Some(a) : a \in AuthorNames }] :
                           n \in 1..MaxChoices } :
        \A i, j \in DOMAIN names :
            (i # j /\ ~IsNone(names[i])) => names[i] # names[j] }

\* "choice_" + text
ChoicePrefixed(text) == <<"choice_", text>>

RECURSIVE AssignNames(_, _)
\* the loop over the choices of the choicegroup: the counter i advances on
\* the choices without a name attribute only
AssignNames(names, i) ==
    IF names = <<>> THEN <<>>
    ELSE IF ~IsNone(Head(names))
    THEN <<ChoicePrefixed(Head(names)[1])>> \o AssignNames(Tail(names), i)
    ELSE <<ChoicePrefixed(Str(i))>> \o AssignNames(Tail(names), i + 1)

\* MultipleChoiceResponse.mc_setup_response and
\* TrueFalseResponse.mc_setup_response (masking is off: has_mask() is False)
McSetupResponse(tag, names) ==
    [type |-> IF tag = "truefalseresponse" THEN "TrueFalse" ELSE "MultipleChoice",
     names |-> AssignNames(names, 0)]

NamesInit ==
    /\ resp \in [tag : {"multiplechoiceresponse", "truefalseresponse"},
                 names : AuthoredNames]
    /\ pc = "new"
    /\ student_answers = EmptyDict
    /\ new_cmap = None
    /\ trace = <<>>
    /\ branches = None
    /\ result = None

\* setup_response runs mc_setup_response on the new response
McSetupResponseCall ==
    /\ pc = "new"
    /\ result' = Some(McSetupResponse(resp.tag, resp.names))
    /\ trace' = <<"mc_setup_response">>
    /\ pc' = "constructed"
    /\ UNCHANGED <<resp, student_answers, new_cmap, branches>>

InitNames == NamesInit /\ EvalIdle

NextNames == McSetupResponseCall /\ UNCHANGED <<codeVars, mcVars>>

SpecNames == InitNames /\ [][NextNames]_vars

(***************************************************************************)
(* Claims about evaluate_answers and get_hints (checked under Spec)        *)
(***************************************************************************)

\* the step of the running call in which get_hints runs
HintsRunInStep == Len(trace') > Len(trace) /\ trace'[Len(trace')] = "get_hints"

\* C1: in every evaluate_answers call get_score completes first, get_hints
\* then runs exactly once on the map get_score returned and that map is the
\* result; when get_score raises, get_hints does not run in that call.
C1_ScoreThenHintsOnce ==
    /\ [](/\ trace \in {<<>>, <<"get_score">>, <<"get_score", "get_hints">>,
                        <<"get_score_raise">>}
          /\ (pc \in {"return", "returned"} => trace = <<"get_score", "get_hints">>)
          /\ (pc = "returned" => ~IsNone(result) /\ result = new_cmap)
          /\ (trace = <<"get_score_raise">> =>
                 pc = "raised" /\ IsNone(branches) /\ IsNone(new_cmap)))
    /\ [][HintsRunInStep =>
            /\ trace = <<"get_score">>
            /\ ~IsNone(new_cmap)
            /\ DOMAIN new_cmap'[1] = DOMAIN new_cmap[1]
            /\ \A k \in DOMAIN new_cmap[1] :
                  new_cmap'[1][k].correctness = new_cmap[1][k].correctness]_vars

\* a call has returned the scored map with a hint attached by get_hints
C1_Witness ==
    /\ pc = "returned"
    /\ trace = <<"get_score", "get_hints">>
    /\ \E k \in DOMAIN result[1] :
          result[1][k].correctness = "incorrect" /\ result[1][k].hint # ""

CodeAid == code.answer_ids[1]

\* C3: update_score with a well-formed reply whose queuekey is not the key
\* pending in the old map leaves the map as it was (the field still waits);
\* a well-formed reply with the pending key is applied: verdict and points
\* of the reply, queue state consumed.
C3_StaleReplyDiscarded ==
    (/\ code.kind = "code"
     /\ last.op = "update_score"
     /\ last.valid
     /\ CorrectMapIsQueued(last.pre, CodeAid)) =>
        IF last.pre[CodeAid].queuestate[1].key # last.key[1]
        THEN cmap = last.pre /\ CorrectMapIsQueued(cmap, CodeAid)
        ELSE /\ cmap[CodeAid].correctness \in {"correct", "incorrect"}
             /\ ~IsNone(cmap[CodeAid].npoints)
             /\ IsNone(cmap[CodeAid].queuestate)
             /\ cmap # last.pre

\* a reply with a stale key was discarded and the reply with the pending
\* key was applied afterwards
C3_Witness ==
    /\ code.kind = "code"
    /\ last.op = "update_score"
    /\ last.valid
    /\ last.stale
    /\ CorrectMapIsQueued(last.pre, CodeAid)
    /\ last.pre[CodeAid].queuestate[1].key = last.key[1]
    /\ cmap[CodeAid].correctness = "correct"

\* C4: the queue_state of the code answer field is non-null only between a
\* request the queue accepted and the reply carrying its key: it is null
\* when no grader is set up, when the send failed and once the matching
\* reply has been processed.
C4_QueueStateOnlyWhilePending ==
    code.kind = "code" =>
        /\ (CorrectMapIsQueued(cmap, CodeAid) =>
              /\ code.xqueue
              /\ ~IsNone(last.sent)
              /\ ~last.answered
              /\ cmap[CodeAid].queuestate = last.sent
              /\ cmap[CodeAid].correctness = "incomplete")
        /\ ((last.op = "get_score" /\ last.raised = "" /\ IsNone(last.sent)) =>
              CodeAid \in DOMAIN cmap /\ IsNone(cmap[CodeAid].queuestate))
        /\ (last.answered => ~CorrectMapIsQueued(cmap, CodeAid))

\* the matching reply has just consumed the queue state of a waiting field
C4_Witness ==
    /\ code.kind = "code"
    /\ last.op = "update_score"
    /\ last.answered
    /\ CorrectMapIsQueued(last.pre, CodeAid)
    /\ IsNone(cmap[CodeAid].queuestate)
    /\ cmap[CodeAid].correctness = "incorrect"

\* C5: update_score with a malformed reply does not raise and leaves
\* correctness, points and pending queue_state of the field as they were.
C5_MalformedReplyKeepsEntry ==
    (/\ code.kind = "code"
     /\ last.op = "update_score"
     /\ ~last.valid
     /\ CodeAid \in DOMAIN last.pre) =>
        /\ last.raised = ""
        /\ CodeAid \in DOMAIN cmap
        /\ cmap[CodeAid].correctness = last.pre[CodeAid].correctness
        /\ cmap[CodeAid].npoints = last.pre[CodeAid].npoints
        /\ cmap[CodeAid].queuestate = last.pre[CodeAid].queuestate

\* C6: every entry of the map that carries points has points between 0 and
\* the maxpoints of its answer field.
C6_PointsWithinMax ==
    \A k \in DOMAIN cmap :
        ~IsNone(cmap[k].npoints) =>
            /\ cmap[k].npoints[1] >= 0
            /\ cmap[k].npoints[1] <= code.maxpoints[k]


(***************************************************************************)
(* Claims about the shuffle and answer-pool transforms (checked under      *)
(* SpecMC; C9 under SpecPair)                                              *)
(***************************************************************************)

\* the positions of l, and the set of its elements
Positions(l) == 1..Len(l)
Elements(l) == { l[i] : i \in Positions(l) }
NoRepeat(l) == \A i, j \in Positions(l) : l[i] = l[j] => i = j

\* positions of the maximal initial run of fixed choices
LeadingOf(l) == { i \in Positions(l) : \A j \in 1..i : l[j].fixed = "true" }
\* positions of the fixed choices that come after a choice that is not fixed
TrailingOf(l) ==
    { i \in Positions(l) : l[i].fixed = "true" /\ \E j \in 1..i : l[j].fixed # "true" }
\* positions of the choices that are not fixed
MiddleOf(l) == { i \in Positions(l) : l[i].fixed # "true" }

\* l restricted to the positions in P is, in order, the segment of m that
\* starts after position from
SameInOrder(l, P, m, from) ==
    \A i \in P : m[from + Cardinality({ j \in P : j <= i })] = l[i]

\* C7: shuffle_choices returns leading + permuted(middle) + trailing: the
\* leading fixed run and the later fixed choices in original order around a
\* permutation of the choices that are not fixed; the result is a
\* permutation of the input and each leading choice keeps its index.
C7_ShuffleKeepsFixed ==
    (~IsNone(mclast) /\ ~IsNone(mclast[1].shuffle)) =>
        LET in == mclast[1].shuffle[1].in
            out == mclast[1].shuffle[1].out
            h == Cardinality(LeadingOf(in))
            m == Cardinality(MiddleOf(in))
        IN  /\ Len(out) = Len(in)
            /\ \A i \in LeadingOf(in) : out[i] = in[i]
            /\ SameInOrder(in, TrailingOf(in), out, h + m)
            /\ { out[i] : i \in (h + 1)..(h + m) } = { in[i] : i \in MiddleOf(in) }
            /\ Elements(out) = Elements(in)
            /\ NoRepeat(out)

\* a fixed choice behind a free one went to the end and the free choices
\* changed places
C7_Witness ==
    /\ ~IsNone(mclast)
    /\ ~IsNone(mclast[1].shuffle)
    /\ LET in == mclast[1].shuffle[1].in
           out == mclast[1].shuffle[1].out
       IN  /\ Len(in) = 3
           /\ in[1].fixed # "true" /\ in[2].fixed = "true" /\ in[3].fixed # "true"
           /\ out = <<in[3], in[1], in[2]>>

NumCorrect(l) == Cardinality({ i \in Positions(l) : l[i].correct = "true" })
NumIncorrect(l) == Cardinality({ i \in Positions(l) : l[i].correct # "true" })

\* the subset sample_from_answer_pool returned has one correct choice and n
\* incorrect ones, all taken from the input, none twice
PoolSubsetHas(in, out, n) ==
    /\ Elements(out) \subseteq Elements(in)
    /\ NoRepeat(out)
    /\ NumCorrect(out) = 1
    /\ NumIncorrect(out) = n

\* the last call sampled from a list with a correct and an incorrect choice
SampledWellFormed ==
    /\ ~IsNone(mclast)
    /\ ~IsNone(mclast[1].sample)
    /\ NumCorrect(mclast[1].sample[1].in) >= 1
    /\ NumIncorrect(mclast[1].sample[1].in) >= 1

C10_ShuffleWithPoolRaises ==
    (/\ ~IsNone(mclast)
     /\ mclast[1].pre.responses[mclast[1].resp].shuffle = "true"
     /\ ~IsNone(mclast[1].pre.responses[mclast[1].resp].pool)) =>
        /\ mclast[1].raised = "LoncapaProblemError"
        /\ mclast[1].by = "do_shuffle"
        /\ inst[mclast[1].inst] = mclast[1].pre
        /\ ~inst[mclast[1].inst].responses[mclast[1].resp].has_shuffle
        /\ inst[mclast[1].inst].responses[mclast[1].resp].children
              = problem.groups[mclast[1].resp].children

\* the second late_transforms call on a choicegroup with both attributes
\* raised again
C10_Witness ==
    /\ ~IsNone(mclast)
    /\ calls[mclast[1].inst] = <<1, 1>>
    /\ problem.groups[1].shuffle = "true"
    /\ ~IsNone(problem.groups[1].pool)
    /\ mclast[1].raised = "LoncapaProblemError"
    /\ mclast[1].by = "do_shuffle"

(***************************************************************************)
(* Claims about single transform calls (checked under SpecDirect, SpecPool)*)
(***************************************************************************)

\* the last step was a call of op on a response
LastOp(op) == ~IsNone(mclast) /\ mclast[1].op = op

\* C11: once do_shuffle has shuffled the choicegroup of a response
\* instance, a further do_shuffle call on it changes neither the order of the
\* choices nor the shared random stream (nor anything else of the problem).
C11_ShuffleOnce ==
    (/\ LastOp("do_shuffle")
     /\ mclast[1].pre.responses[mclast[1].resp].has_shuffle) =>
        /\ mclast[1].raised = ""
        /\ IsNone(mclast[1].shuffle)
        /\ inst[mclast[1].inst].responses[mclast[1].resp].children
              = mclast[1].pre.responses[mclast[1].resp].children
        /\ inst[mclast[1].inst].rng = mclast[1].pre.rng
        /\ inst[mclast[1].inst] = mclast[1].pre

\* do_shuffle was called on a response whose earlier shuffle had changed the
\* order of the XML
C11_Witness ==
    /\ LastOp("do_shuffle")
    /\ mclast[1].pre.responses[mclast[1].resp].has_shuffle
    /\ mclast[1].pre.responses[mclast[1].resp].children
          # problem.groups[mclast[1].resp].children
    /\ ~IsNone(mclast[1].pre.rng)

\* C12: once do_answer_pool has subsetted the choicegroup of a response
\* instance, a further do_answer_pool call on it leaves the remaining
\* choices, their order, the solution set and the shared random stream
\* unchanged.
C12_AnswerPoolOnce ==
    (/\ LastOp("do_answer_pool")
     /\ mclast[1].pre.responses[mclast[1].resp].has_answerpool) =>
        /\ mclast[1].raised = ""
        /\ IsNone(mclast[1].sample)
        /\ inst[mclast[1].inst].responses[mclast[1].resp].children
              = mclast[1].pre.responses[mclast[1].resp].children
        /\ inst[mclast[1].inst].responses[mclast[1].resp].solutions
              = mclast[1].pre.responses[mclast[1].resp].solutions
        /\ inst[mclast[1].inst].rng = mclast[1].pre.rng
        /\ inst[mclast[1].inst] = mclast[1].pre

\* do_answer_pool was called on a response whose pool had already been
\* drawn: fewer choices than in the XML are left
C12_Witness ==
    /\ LastOp("do_answer_pool")
    /\ mclast[1].pre.responses[mclast[1].resp].has_answerpool
    /\ mclast[1].pre.responses[mclast[1].resp].children # <<>>
    /\ Len(mclast[1].pre.responses[mclast[1].resp].children)
          < Len(problem.groups[mclast[1].resp].children)
    /\ ~IsNone(mclast[1].pre.rng)

\* the choices C13 counts as correct and as incorrect: a choice without a
\* correct attribute is one of the incorrect ones
CountedCorrect(l) == { i \in 1..Len(l) : Upper(l[i].correct) = "TRUE" }
CountedIncorrect(l) == { i \in 1..Len(l) : Upper(l[i].correct) # "TRUE" }

\* C13: the first do_answer_pool call on a choicegroup whose answer-pool is
\* not '0' raises LoncapaProblemError when the attribute is not an integer
\* and when there is no correct or no incorrect choice, where a choice
\* without a correct attribute is an incorrect one; with a correct and an
\* incorrect choice it does not raise.
C13_AnswerPoolErrors ==
    (/\ LastOp("do_answer_pool")
     /\ ~mclast[1].pre.responses[mclast[1].resp].has_answerpool
     /\ ~IsNone(mclast[1].pre.responses[mclast[1].resp].pool)
     /\ ~mclast[1].pre.responses[mclast[1].resp].pool[1].is_zero) =>
        LET rsp == mclast[1].pre.responses[mclast[1].resp] IN
        IF IsNone(rsp.pool[1].int)
        THEN mclast[1].raised = "LoncapaProblemError"
        ELSE IF CountedCorrect(rsp.children) = {} \/ CountedIncorrect(rsp.children) = {}
        THEN mclast[1].raised = "LoncapaProblemError"
        ELSE mclast[1].raised = ""

\* the step is a call on problem instance i that reaches get_rng: get_rng
\* itself, a do_shuffle that shuffles or a do_answer_pool that samples
ReachesGetRng(i) ==
    /\ ~IsNone(mclast')
    /\ mclast'[1].inst = i
    /\ \/ mclast'[1].op = "get_rng"
       \/ ~IsNone(mclast'[1].shuffle)
       \/ ~IsNone(mclast'[1].sample)

\* C14: the generator of a problem does not exist until a call reaches
\* get_rng; the first get_rng call creates it, seeded with the seed of the
\* context; no later call, from any response of the problem, creates or
\* seeds a generator again, and a later get_rng call returns the generator
\* as it is.
C14_RngCreatedOnce ==
    /\ [](\A i \in DOMAIN inst :
            /\ inst[i].created <= 1
            /\ IsNone(inst[i].rng) <=> inst[i].created = 0)
    /\ [][\A i \in DOMAIN inst :
            /\ (IsNone(inst[i].rng) /\ ~IsNone(inst'[i].rng)) => ReachesGetRng(i)
            /\ (IsNone(inst[i].rng) /\ ReachesGetRng(i)) => inst'[i].created = 1
            /\ (mclast'[1].op = "get_rng" /\ mclast'[1].inst = i) =>
                  IF IsNone(inst[i].rng)
                  THEN inst'[i].rng = Some(RngSeed(problem.seed))
                  ELSE inst'[i] = inst[i]]_vars

\* the second response asked for the generator after the shuffle of the
\* first response had created it and drawn from it
C14_Witness ==
    /\ LastOp("get_rng")
    /\ mclast[1].resp = 2
    /\ mclast[1].pre.responses[1].has_shuffle
    /\ ~IsNone(mclast[1].pre.rng)
    /\ mclast[1].pre.rng # Some(RngSeed(problem.seed))
    /\ inst[mclast[1].inst].rng = mclast[1].pre.rng
    /\ inst[mclast[1].inst].created = 1

(***************************************************************************)
(* Claims about ChoiceResponse (checked under SpecChoice)                  *)
(***************************************************************************)

\* the set of names the submission stands for: empty when the field is
\* missing, one element for a single value, the elements of a list
SubmittedSet(sa) ==
    IF 1 \notin DOMAIN sa THEN {}
    ELSE IF sa[1].is_list THEN { sa[1].value[i] : i \in 1..Len(sa[1].value) }
    ELSE { sa[1].value }

\* the submission that is the list of the names in S
ListOf(S) == [k \in {1} |-> [is_list |-> TRUE, value |-> SetToSeq(S)]]

\* C15: the field of a choiceresponse is marked correct iff the set of
\* submitted names equals the set of correct names; from a correct
\* submission, one more name or one required name less is incorrect.
C15_CorrectIffSetsEqual ==
    pc = "returned" =>
        /\ result[1][1].correctness \in {"correct", "incorrect"}
        /\ result[1][1].correctness = "correct"
              <=> SubmittedSet(student_answers) = resp.correct_choices
        /\ result[1][1].correctness = "correct" =>
              /\ \A x \in SubmittableNames(Len(resp.choices)) \ SubmittedSet(student_answers) :
                    ChoiceGetScore(resp, ListOf(SubmittedSet(student_answers) \cup {x}))[1].correctness
                        = "incorrect"
              /\ \A x \in SubmittedSet(student_answers) :
                    ChoiceGetScore(resp, ListOf(SubmittedSet(student_answers) \ {x}))[1].correctness
                        = "incorrect"

\* a list naming exactly the two correct choices of a group with a third,
\* incorrect choice was graded correct
C15_Witness ==
    /\ pc = "returned"
    /\ Cardinality(resp.correct_choices) = 2
    /\ Len(resp.choices) = 3
    /\ 1 \in DOMAIN student_answers
    /\ student_answers[1].is_list
    /\ SubmittedSet(student_answers) = resp.correct_choices
    /\ result[1][1].correctness = "correct"

\* C16: after evaluate_answers on a choiceresponse the entry of a correct
\* submission holds the declared maximum of the field as its points and the
\* entry of an incorrect submission holds 0.
C16_ChoicePoints ==
    pc = "returned" =>
        /\ result[1][1].correctness = "correct"
              => result[1][1].npoints = Some(resp.maxpoints[1])
        /\ result[1][1].correctness = "incorrect"
              => result[1][1].npoints = Some(0)

(***************************************************************************)
(* Claims about the constructor (checked under SpecConstructor)            *)
(***************************************************************************)

\* the constructor has ended, by returning or by an exception
ConstructorEnded == pc \in {"constructed", "raised"} /\ "type" \in DOMAIN resp

\* number of times the setup body of class cls ran
SetupRuns(cls) ==
    Cardinality({ i \in 1..Len(trace) : trace[i] = <<"setup", cls>> })

SetupClasses == { "ChoiceResponse", "OptionResponse", "NumericalResponse",
                  "FormulaResponse", "CustomResponse", "SymbolicResponse" }

\* C17: the constructor raises LoncapaProblemError when an input field has
\* a tag outside allowed_inputfields, when there are more input fields than
\* max_inputfields, and when a required attribute is absent from the
\* response element; then no setup body has run.
C17_ConstructorValidates ==
    (/\ ConstructorEnded
     /\ \/ \E i \in 1..Len(resp.inputfields) :
              resp.inputfields[i].tag \notin resp.type.allowed_inputfields
        \/ /\ resp.type.max_inputfields # 0
           /\ Len(resp.inputfields) > resp.type.max_inputfields
        \/ \E prop \in resp.type.required_attributes : resp.attrs[prop] = "absent") =>
        /\ pc = "raised"
        /\ result[1].raised = "LoncapaProblemError"
        /\ \A cls \in SetupClasses : SetupRuns(cls) = 0

\* a symbolicresponse with two text lines was refused
C17_Witness ==
    /\ ConstructorEnded
    /\ resp.type.tag = "symbolicresponse"
    /\ Len(resp.inputfields) = 2
    /\ \A i \in 1..2 : resp.inputfields[i].tag = "textline"
    /\ result[1].raised = "LoncapaProblemError"
    /\ trace = <<>>

\* C18: when the constructor runs the setup of a type, validation,
\* answer_ids, maxpoints and default_answer_map are done before it, and no
\* setup body of any class runs more than once for the instance; a
\* constructed instance has had the setup of its type run once.
C18_SetupRunsOnce ==
    ConstructorEnded =>
        /\ \A i \in 1..Len(trace) :
              trace[i][1] = "setup" =>
                 /\ i > 4
                 /\ SubSeq(trace, 1, 4) = << <<"validated">>, <<"answer_ids">>,
                                             <<"maxpoints">>, <<"default_answer_map">> >>
        /\ \A cls \in SetupClasses : SetupRuns(cls) <= 1
        /\ pc = "constructed" =>
              SetupRuns(resp.type.setup[Len(resp.type.setup)]) = 1

(***************************************************************************)
(* Claims about NumericalResponse (checked under SpecNumerical)            *)
(***************************************************************************)

\* get_score graded a real submission against an interval with two real
\* boundaries
GradedInterval ==
    /\ pc = "returned"
    /\ result[1].op = "get_score"
    /\ "range_tolerance" \in DOMAIN resp
    /\ resp.range_tolerance
    /\ resp.answer_range[1].kind = "real"
    /\ resp.answer_range[2].kind = "real"
    /\ student_answers[1].kind = "real"

\* C19 as stated: a submission equal to a boundary is correct iff the
\* bracket of that side is inclusive, and every other real submission is
\* correct iff it lies strictly between the boundaries.
C19_IntervalExact ==
    GradedInterval =>
        LET lo == resp.answer_range[1].v
            hi == resp.answer_range[2].v
            x == student_answers[1].v
        IN  /\ x = lo => (result[1].value <=> resp.inclusion[1])
            /\ x = hi => (result[1].value <=> resp.inclusion[2])
            /\ x \notin {lo, hi} => (result[1].value <=> (lo < x /\ x < hi))

\* C19: a submission within machine epsilon (relative) of the lower
\* boundary is correct iff the lower bracket is inclusive; otherwise one
\* within machine epsilon of the upper boundary is correct iff the upper
\* bracket is inclusive; every other real submission is correct iff it lies
\* strictly between the boundaries.  For [2, 5) input 2 is correct and
\* input 5 is not.
C19_IntervalWithinEpsilon ==
    GradedInterval =>
        LET lo == resp.answer_range[1].v
            hi == resp.answer_range[2].v
            x == student_answers[1].v
        IN  /\ Abs(x - lo) <= EpsilonUlps => (result[1].value <=> resp.inclusion[1])
            /\ (Abs(x - lo) > EpsilonUlps /\ Abs(x - hi) <= EpsilonUlps) =>
                  (result[1].value <=> resp.inclusion[2])
            /\ (Abs(x - lo) > EpsilonUlps /\ Abs(x - hi) > EpsilonUlps) =>
                  (result[1].value <=> (lo < x /\ x < hi))
            /\ (lo = 2 /\ hi = 5 /\ resp.inclusion = <<TRUE, FALSE>>) =>
                  /\ x = 2 => result[1].value
                  /\ x = 5 => ~result[1].value

\* input 5 was graded incorrect for the answer [2, 5)
C19_Witness ==
    /\ GradedInterval
    /\ resp.answer_range[1].v = 2
    /\ resp.answer_range[2].v = 5
    /\ resp.inclusion = <<TRUE, FALSE>>
    /\ student_answers[1].v = 5
    /\ ~result[1].value
    /\ new_cmap[1][1].correctness = "incorrect"

\* the last call evaluated student text that evaluator fails on
FailedText ==
    /\ pc \in {"returned", "raised"}
    /\ "op" \in DOMAIN result[1]
    /\ \/ /\ result[1].op = "get_score"
          /\ 1 \in DOMAIN student_answers
          /\ student_answers[1].kind \in FailingKinds
       \/ /\ result[1].op \in {"compare_answer", "validate_answer"}
          /\ \E i \in 1..Len(result[1].texts) : result[1].texts[i].kind \in FailingKinds

\* C20: when student text fails to parse or evaluate, get_score,
\* compare_answer and validate_answer end in StudentInputError or return a
\* boolean; no other exception leaves them.
C20_OnlyStudentInputError ==
    FailedText =>
        /\ result[1].raised \in {"", "StudentInputError"}
        /\ result[1].raised = "" => result[1].value \in BOOLEAN

(***************************************************************************)
(* Claims about StringResponse (checked under SpecString)                  *)
(***************************************************************************)

\* a get_score call of a StringResponse that is not on the legacy path
\* has returned
StringGraded ==
    /\ pc = "returned"
    /\ result[1].op = "get_score"
    /\ "correct_answer" \in DOMAIN resp

\* the pattern matches the whole text
FullMatch(pattern, text, ci) ==
    /\ Len(pattern) = Len(text)
    /\ MatchAt(pattern, text, 1, ci)

\* C21: in regexp mode a submission is correct iff the whole trimmed
\* submission matches at least one of the declared answer patterns, letter
\* case ignored iff the ci flag is set.
C21_RegexpWholeMatch ==
    (StringGraded /\ resp.regexp /\ ~resp.backward) =>
        (result[1].value <=>
            \E i \in DOMAIN resp.correct_answer :
                FullMatch(resp.correct_answer[i], Strip(student_answers[1]),
                          resp.case_insensitive))

\* a get_score call with a submission for the answer field has ended
StringCalled ==
    /\ pc \in {"returned", "raised"}
    /\ result[1].op = "get_score"
    /\ "correct_answer" \in DOMAIN resp
    /\ 1 \in DOMAIN student_answers

\* the answer attribute contains the separator _or_
HasOrSeparator == Len(resp.xml.answer.segments) = 2 /\ resp.xml.answer.sep = "_or_"

\* the texts are equal, letter case ignored iff ci
TextEquals(a, b, ci) == IF ci THEN Lower(a) = Lower(b) ELSE a = b

\* C22: when the answer attribute contains _or_, the submission is correct
\* iff the trimmed submission equals one of the _or_-separated answers
\* (letter case ignored iff ci), whatever the regexp flag and the
\* additional_answer elements are.
C22_LegacyExactMatch ==
    (StringCalled /\ HasOrSeparator) =>
        /\ result[1].raised = ""
        /\ result[1].value <=>
              \E i \in 1..2 :
                  TextEquals(resp.xml.answer.segments[i], Strip(student_answers[1]),
                             resp.xml.ci)

\* a legacy answer "(_or_." with the regexp flag and an additional answer
\* "." was graded incorrect for the submission "a"
C22_Witness ==
    /\ StringCalled
    /\ HasOrSeparator
    /\ resp.xml.regexp
    /\ resp.xml.answer.segments = << <<"(">>, <<".">> >>
    /\ resp.xml.additional = << <<".">> >>
    /\ student_answers[1] = <<"a">>
    /\ result[1].raised = ""
    /\ ~result[1].value

\* the alternation of the answer patterns does not compile
CompileFails ==
    /\ resp.regexp
    /\ ~resp.backward
    /\ \E i \in DOMAIN resp.correct_answer : ~Compiles(resp.correct_answer[i])

\* C23: when the combined pattern of a regexp-mode StringResponse does not
\* compile, grading a submission ends in ResponseError and produces no
\* correctness map.
C23_CompileFailureIsResponseError ==
    (StringCalled /\ CompileFails) =>
        /\ pc = "raised"
        /\ result[1].raised = "ResponseError"
        /\ new_cmap = None

\* grading "a" against the patterns "a" and "(" ended in ResponseError
C23_Witness ==
    /\ StringCalled
    /\ CompileFails
    /\ resp.correct_answer = << <<"a">>, <<"(">> >>
    /\ student_answers[1] = <<"a">>
    /\ result[1].raised = "ResponseError"

(***************************************************************************)
(* Claims about the hint arms (checked under Spec)                         *)
(***************************************************************************)

\* the response declares no hint function
NoHintFunction == IsNone(resp.hintgroup) \/ IsNone(resp.hintgroup[1].hintfn)

\* get_hints ran on a new-schema document with at least one answer
\* submitted and no hint function declared
NewStyleCase ==
    /\ ~IsNone(branches)
    /\ NoHintFunction
    /\ UsingNewStyleHints(resp)
    /\ Cardinality(DOMAIN student_answers) > 0

\* C24: with no hint function, the new hint schema and at least one answer
\* submitted, the compound-condition hints are attempted first, the
\* single-choice hints only if no compound condition matched, and the
\* legacy condition hints are not evaluated.
C24_CompoundThenSingle ==
    NewStyleCase =>
        LET b == branches[1]
            m == new_cmap[1]
            compound_written == \E k \in DOMAIN m : m[k].msg = "compound_hint"
        IN  /\ b.arms = <<"xml">>
            /\ b.hooks \in {<<"compound">>, <<"compound", "single">>}
            /\ (b.hooks = <<"compound">>) <=> compound_written
            /\ ~b.checked
            /\ \A k \in DOMAIN m : m[k].hint = ""

\* no compound condition matched on a response that also carries legacy
\* condition hints: the single-choice hints ran, the legacy ones did not
C24_Witness ==
    /\ NewStyleCase
    /\ branches[1].hooks = <<"compound", "single">>
    /\ ~IsNone(resp.hint_tag)
    /\ resp.has_check
    /\ ~IsNone(resp.hintgroup)
    /\ Len(resp.hintgroup[1].rephints) > 0
    /\ \E k \in DOMAIN new_cmap[1] : new_cmap[1][k].msg = "single_hint"

\* the legacy arm of get_hints checked the hint conditions and ended
\* without an exception
LegacyCase ==
    /\ ~IsNone(branches)
    /\ branches[1].arms = <<"legacy">>
    /\ branches[1].checked
    /\ pc # "raised"

ChoiceTextCalled ==
    /\ pc \in {"returned", "raised"}
    /\ result[1].op = "get_score"
    /\ "correct_inputs" \in DOMAIN resp
    /\ 1 \in DOMAIN student_answers

\* the choices the student selected, and those for whose input a text was
\* sent
SelectedChoices ==
    { i \in DOMAIN resp.choices : BinaryName(i) \in DOMAIN student_answers[1] }
TypedChoices ==
    { i \in DOMAIN resp.choices : InputName(i) \in DOMAIN student_answers[1] }
CorrectChoiceSet == { i \in DOMAIN resp.choices : resp.choices[i].correct }

\* the text typed into the numtolerance_input of choice i is a number
\* within the tolerance of the staff answer
TypedWithinTolerance(i) ==
    LET t == student_answers[1][InputName(i)]
        c == resp.choices[i]
    IN  /\ t.kind = "real"
        /\ c.answer.kind = "real"
        /\ Abs(t.v - c.answer.v) <= c.tolerance

\* C26: get_score marks the field correct iff the set of selected choices
\* equals the set of correct choices and every text typed into the
\* numtolerance_input of a selected choice is within its tolerance of the
\* staff answer; either part failing alone gives incorrect.
C26_ChoicesAndInputs ==
    (ChoiceTextCalled /\ pc = "returned") =>
        (result[1].value <=>
            /\ SelectedChoices = CorrectChoiceSet
            /\ \A i \in SelectedChoices \cap TypedChoices :
                  resp.choices[i].input = "numtolerance_input" => TypedWithinTolerance(i))

\* the right choices were selected and the typed number misses the staff
\* answer: incorrect
C26_Witness ==
    /\ ChoiceTextCalled
    /\ pc = "returned"
    /\ SelectedChoices = CorrectChoiceSet
    /\ \E i \in SelectedChoices \cap TypedChoices :
          /\ resp.choices[i].input = "numtolerance_input"
          /\ ~TypedWithinTolerance(i)
    /\ ~result[1].value
    /\ new_cmap[1][1].correctness = "incorrect"

\* the submitted dict without the texts typed into choices that are not
\* selected
WithoutUnselected ==
    [k \in { n \in DOMAIN student_answers[1] :
                EndsWithBc(n) \/ n[2] \in SelectedChoices } |-> student_answers[1][k]]

\* C27: texts typed into the inputs of choices that are not selected are
\* never validated: they raise nothing and do not change the verdict; a
\* text that is no number inside a selected choice (decoy inputs included)
\* always raises StudentInputError.
C27_UnselectedDiscarded ==
    ChoiceTextCalled =>
        LET bad_selected ==
                \E i \in SelectedChoices \cap TypedChoices :
                    student_answers[1][InputName(i)].kind # "real"
            bad_staff ==
                \E i \in SelectedChoices \cap TypedChoices :
                    /\ InputName(i) \in DOMAIN resp.correct_inputs
                    /\ resp.choices[i].answer.kind # "real"
            alone == ChoiceTextGetScore(resp, [k \in {1} |-> WithoutUnselected])
        IN  /\ bad_selected => result[1].raised = "StudentInputError"
            /\ (~bad_selected /\ ~bad_staff) => result[1].raised = ""
            /\ result[1].raised = alone.raised
            /\ result[1].value = alone.correct

\* a text that is no number was typed into a choice that is not selected
\* and the submission was graded correct
C27_Witness ==
    /\ ChoiceTextCalled
    /\ pc = "returned"
    /\ result[1].value
    /\ CorrectChoiceSet # {}
    /\ \E i \in TypedChoices \ SelectedChoices :
          student_answers[1][InputName(i)].kind # "real"

(***************************************************************************)
(* Claims about a failed answer-pool transform (checked under SpecPool)    *)
(***************************************************************************)

\* the last call was do_answer_pool and it raised LoncapaProblemError
AnswerPoolRaised ==
    /\ LastOp("do_answer_pool")
    /\ mclast[1].raised = "LoncapaProblemError"

\* C28: when do_answer_pool raises LoncapaProblemError, the children of the
\* choicegroup and the answer-pool flag of the response are as they were
\* before the call.
C28_RaiseLeavesTreeUnchanged ==
    AnswerPoolRaised =>
        LET now == inst[mclast[1].inst].responses[mclast[1].resp]
            pre == mclast[1].pre.responses[mclast[1].resp]
        IN  /\ now.children = pre.children
            /\ now.has_answerpool = pre.has_answerpool

(***************************************************************************)
(* Claims about MultipleChoiceResponse scoring (checked under SpecScore)   *)
(***************************************************************************)

\* C29: after setup and the answer-pool transform, get_score marks a
\* submission correct only if it names a correct choice that is still in
\* the choicegroup, and get_answers lists only choices that are still there.
C29_OnlyPresentChoices ==
    /\ (LastOp("get_score") /\ mclast[1].value) =>
          /\ mclast[1].submitted[1] \in CorrectChoices(problem.groups[mclast[1].resp])
          /\ mclast[1].submitted[1]
                \in PresentNames(inst[mclast[1].inst].responses[mclast[1].resp])
    /\ LastOp("get_answers") =>
          mclast[1].answers \subseteq
              PresentNames(inst[mclast[1].inst].responses[mclast[1].resp])

(***************************************************************************)
(* Claims about the choice names (checked under SpecNames)                 *)
(***************************************************************************)

\* C30: after setup of a MultipleChoiceResponse or TrueFalseResponse the
\* names of the choices are pairwise distinct, whether the author wrote
\* (distinct) name attributes on none, some or all of the choices.
C30_NamesDistinct ==
    (pc = "constructed" /\ trace = <<"mc_setup_response">>) =>
        \A i, j \in DOMAIN result[1].names :
            i # j => result[1].names[i] # result[1].names[j]

====
